---- MODULE Spec2Model ----
(***************************************************************************)
(* Model of the outbound-calling backend (VAPIOutboundService):            *)
(*   - formatPhoneNumber, the phone normalisation (pure function);         *)
(*   - the 'data' handler of uploadLeadsFromCSV (row parsing/validation);  *)
(*   - the 'end' handler of uploadLeadsFromCSV (upsert into storage).      *)
(*   - startCampaign, resumeCampaign, pauseCampaign, and the run of        *)
(*     processCampaignCalls with makeCall that a start or resume begins;   *)
(*   - the routes POST /api/campaigns/:id/start and /:id/pause.            *)
(*                                                                         *)
(* Strings are sequences of one-character strings: "+44" is                *)
(* <<"+","4","4">>.  The JavaScript value undefined is Undef.              *)
(***************************************************************************)
EXTENDS Integers, Sequences, FiniteSets, TLC

VARIABLES
    fmtPc,       \* position of the normalisation run: "input", "formatted", "dialled"
    fmtIn,       \* the phone string handed to formatPhoneNumber (lead.phone)
    fmtOut,      \* formattedPhone, the value formatPhoneNumber returned
    vapiNumber,  \* vapiPhoneNumber, callRequest.customer.number of makeCall
    leadsTable,  \* storage: the rows of table 'leads'
    nextLeadId,  \* the id storage gives to the next inserted lead
    upPc,        \* position of uploadLeadsFromCSV: "idle", "data", "end", "resolved", "rejected"
    upOrg,       \* this.organizationId of the service that runs the upload
    upCampaign,  \* campaignId
    csvRows,     \* the rows csv-parser has emitted for csvData so far, in order
    lineNumber,  \* lineNumber
    leads,       \* leads: the parsed leads, in row order
    errors,      \* errors: the collected messages
    upResult,    \* the value the returned promise resolved with
    uploadsDone, \* number of uploadLeadsFromCSV calls started so far
    campaigns,   \* storage: the rows of table 'campaigns', by id
    calls,       \* storage: the rows of table 'calls'
    vapiCalls,   \* the calls the calling API has accepted
    procs,       \* the startCampaign / resumeCampaign invocations and their call-processing runs
    scanOrder,   \* the order in which storage returns the rows of an unordered query
    requests,    \* the HTTP requests being handled, in order of arrival
    organizations,      \* storage: the rows of table 'organizations'
    users,              \* storage: the rows of table 'users'
    scheduledFollowups, \* storage: the rows of table 'scheduled_followups', by id
    notifications       \* storage: the rows of table 'notifications'

fmtVars == <<fmtPc, fmtIn, fmtOut, vapiNumber>>

upVars == <<leadsTable, nextLeadId, upPc, upOrg, upCampaign, csvRows, lineNumber,
            leads, errors, upResult, uploadsDone>>

\* the variables of an upload other than the table of leads
uploadCtl == <<nextLeadId, upPc, upOrg, upCampaign, csvRows, lineNumber, leads,
               errors, upResult, uploadsDone>>

campVars == <<campaigns, calls, vapiCalls, procs, scanOrder, requests>>

adminVars == <<organizations, users, scheduledFollowups, notifications>>

vars == <<fmtPc, fmtIn, fmtOut, vapiNumber, leadsTable, nextLeadId, upPc, upOrg,
          upCampaign, csvRows, lineNumber, leads, errors, upResult, uploadsDone,
          campaigns, calls, vapiCalls, procs, scanOrder, requests,
          organizations, users, scheduledFollowups, notifications>>

\* no organization, no user, no follow-up and no notification
AdminIdle ==
    /\ organizations = {}
    /\ users = {}
    /\ scheduledFollowups = <<>>
    /\ notifications = {}

\* no campaign, no call, no invocation and no request
CampIdle ==
    /\ campaigns = <<>>
    /\ calls = {}
    /\ vapiCalls = {}
    /\ procs = <<>>
    /\ scanOrder = "asc"
    /\ requests = <<>>
    /\ AdminIdle

(***************************************************************************)
(* Bounds                                                                  *)
(***************************************************************************)
MaxBody == 11
MaxPhoneLen == 4
MaxNameLen == 3
MaxRows == 2
MaxUploads == 2

(***************************************************************************)
(* String helpers                                                          *)
(***************************************************************************)
Digit == {"0", "1", "2", "3", "4", "5", "6", "7", "8", "9"}

SeqsUpTo(S, n) == UNION {[1..k -> S] : k \in 0..n}

\* String.prototype.startsWith
startsWith(s, p) == Len(s) >= Len(p) /\ SubSeq(s, 1, Len(p)) = p

\* phone.replace(/\D/g, ''): drop every character that is not an ASCII digit
RemoveNonDigits(s) == SelectSeq(s, LAMBDA c : c \in Digit)

(***************************************************************************)
(* formatPhoneNumber                                                       *)
(***************************************************************************)
\* mutant: only 9XXXXXXX is taken for a Malta mobile number
FormatWithoutCountryCode_MaltaNineOnly(cleaned) ==
    IF Len(cleaned) = 8 /\ startsWith(cleaned, <<"9">>)
    THEN <<"+", "3", "5", "6">> \o cleaned
    ELSE IF Len(cleaned) = 10
    THEN <<"+", "4", "4">> \o cleaned
    ELSE IF Len(cleaned) = 11 /\ startsWith(cleaned, <<"0">>)
    THEN <<"+", "4", "4">> \o SubSeq(cleaned, 2, Len(cleaned))
    ELSE IF startsWith(cleaned, <<"+">>) THEN cleaned ELSE <<"+">> \o cleaned

\* mutant: the fallback takes the number for a UK number and prefixes +44
FormatWithoutCountryCode_UKFallback(cleaned) ==
    IF Len(cleaned) = 8 /\ (startsWith(cleaned, <<"9">>) \/ startsWith(cleaned, <<"7">>))
    THEN <<"+", "3", "5", "6">> \o cleaned
    ELSE IF Len(cleaned) = 10
    THEN <<"+", "4", "4">> \o cleaned
    ELSE IF Len(cleaned) = 11 /\ startsWith(cleaned, <<"0">>)
    THEN <<"+", "4", "4">> \o SubSeq(cleaned, 2, Len(cleaned))
    ELSE <<"+", "4", "4">> \o cleaned

\* the body after the country-code block: Malta, UK default, UK national, fallback
FormatWithoutCountryCode(cleaned) ==
    IF Len(cleaned) = 8 /\ (startsWith(cleaned, <<"9">>) \/ startsWith(cleaned, <<"7">>))
    THEN <<"+", "3", "5", "6">> \o cleaned
    ELSE IF Len(cleaned) = 10
    THEN <<"+", "4", "4">> \o cleaned
    ELSE IF Len(cleaned) = 11 /\ startsWith(cleaned, <<"0">>)
    THEN <<"+", "4", "4">> \o SubSeq(cleaned, 2, Len(cleaned))
    ELSE IF startsWith(cleaned, <<"+">>) THEN cleaned ELSE <<"+">> \o cleaned

\* mutant: the UK default for ten digits is tried before the country-code block
formatPhoneNumber_UKFirst(phone) ==
    IF phone = <<>> THEN <<>>
    ELSE LET cleaned == RemoveNonDigits(phone) IN
         IF Len(cleaned) = 10 THEN <<"+", "4", "4">> \o cleaned
         ELSE IF Len(cleaned) >= 10 THEN <<"+">> \o cleaned
         ELSE FormatWithoutCountryCode(cleaned)

formatPhoneNumber(phone) ==
    IF phone = <<>> THEN <<>>
    ELSE LET cleaned == RemoveNonDigits(phone) IN
         IF Len(cleaned) >= 10
         THEN IF startsWith(cleaned, <<"1">>) /\ Len(cleaned) = 11
              THEN <<"+">> \o cleaned
              ELSE IF startsWith(cleaned, <<"4", "4">>) /\ Len(cleaned) >= 11
              THEN <<"+">> \o cleaned
              ELSE IF startsWith(cleaned, <<"3", "5", "6">>) /\ Len(cleaned) = 11
              THEN <<"+">> \o cleaned
              ELSE IF startsWith(cleaned, <<"3", "9">>) /\ Len(cleaned) >= 10
              THEN <<"+">> \o cleaned
              ELSE IF startsWith(cleaned, <<"3", "3">>) /\ Len(cleaned) >= 10
              THEN <<"+">> \o cleaned
              ELSE IF startsWith(cleaned, <<"4", "9">>) /\ Len(cleaned) >= 11
              THEN <<"+">> \o cleaned
              ELSE IF Len(cleaned) >= 10
              THEN <<"+">> \o cleaned
              ELSE FormatWithoutCountryCode(cleaned)
         ELSE FormatWithoutCountryCode(cleaned)

\* makeCall: formattedPhone.startsWith('+') ? formattedPhone : `+${formattedPhone}`
EnsurePlusPrefix(formattedPhone) ==
    IF startsWith(formattedPhone, <<"+">>) THEN formattedPhone
    ELSE <<"+">> \o formattedPhone

(***************************************************************************)
(* uploadLeadsFromCSV: JavaScript values                                   *)
(***************************************************************************)
\* the value of a column the row does not have
Undef == <<"undefined">>

\* a string is truthy unless it is empty; undefined is falsy
Truthy(v) == v # Undef /\ v # <<>>

\* a || b
Or(a, b) == IF Truthy(a) THEN a ELSE b

\* the characters \s matches and trim() strips, among those of the model
Whitespace == {" "}

RECURSIVE trimStart(_)
trimStart(s) ==
    IF s # <<>> /\ Head(s) \in Whitespace THEN trimStart(Tail(s)) ELSE s

RECURSIVE trimEnd(_)
trimEnd(s) ==
    IF s # <<>> /\ s[Len(s)] \in Whitespace THEN trimEnd(SubSeq(s, 1, Len(s) - 1)) ELSE s

\* String.prototype.trim
trim(s) == trimEnd(trimStart(s))

\* index of the first ' ' of s, or 0
RECURSIVE IndexOfSpace(_, _)
IndexOfSpace(s, i) ==
    IF i > Len(s) THEN 0
    ELSE IF s[i] = " " THEN i
    ELSE IndexOfSpace(s, i + 1)

\* s.split(' ')[0]
FirstPart(s) ==
    LET i == IndexOfSpace(s, 1) IN
    IF i = 0 THEN s ELSE SubSeq(s, 1, i - 1)

\* s.split(' ').slice(1).join(' ') || ''
RestParts(s) ==
    LET i == IndexOfSpace(s, 1) IN
    IF i = 0 THEN <<>> ELSE SubSeq(s, i + 1, Len(s))

\* phoneField.replace(/[\s\-\(\)]/g, '')
CleanPhone(phoneField) ==
    SelectSeq(phoneField, LAMBDA c : c \notin (Whitespace \cup {"-", "(", ")"}))

\* the bounds of \d{1,14} in phoneRegex
MinMoreDigits == 1
MaxMoreDigits == 14

\* mutant: the first digit may be 0
PhoneRegexTest_LeadingZero(cleanPhone) ==
    LET t == IF startsWith(cleanPhone, <<"+">>) THEN Tail(cleanPhone) ELSE cleanPhone IN
    /\ Len(t) >= 1 + MinMoreDigits
    /\ Len(t) <= 1 + MaxMoreDigits
    /\ \A i \in 1..Len(t) : t[i] \in Digit

\* /^\+?[1-9]\d{1,14}$/.test(cleanPhone)
PhoneRegexTest(cleanPhone) ==
    LET t == IF startsWith(cleanPhone, <<"+">>) THEN Tail(cleanPhone) ELSE cleanPhone IN
    /\ Len(t) >= 1 + MinMoreDigits
    /\ Len(t) <= 1 + MaxMoreDigits
    /\ t[1] \in Digit \ {"0"}
    /\ \A i \in 2..Len(t) : t[i] \in Digit

(***************************************************************************)
(* uploadLeadsFromCSV: the 'data' handler                                  *)
(***************************************************************************)
PhoneColumns == <<"phone", "number", "telephone", "phoneNumber", "Phone", "Number">>
NameColumns == <<"name", "Name">>
FirstNameColumns == <<"firstName", "first_name", "FirstName", "firstname">>
LastNameColumns == <<"lastName", "last_name", "LastName", "lastname">>

Range(f) == {f[i] : i \in DOMAIN f}

Columns == Range(PhoneColumns) \cup Range(NameColumns)
               \cup Range(FirstNameColumns) \cup Range(LastNameColumns)

\* row[c1] || row[c2] || ... over the columns cols, from position i
RECURSIVE OrChain(_, _, _)
OrChain(row, cols, i) ==
    IF i = Len(cols) THEN row[cols[i]]
    ELSE Or(row[cols[i]], OrChain(row, cols, i + 1))

\* mutant: 'number' is consulted before 'phone'
phoneField_NumberFirst(row) ==
    OrChain(row, <<"number", "phone", "telephone", "phoneNumber", "Phone", "Number">>, 1)

phoneField(row) == OrChain(row, PhoneColumns, 1)
nameField(row) == OrChain(row, NameColumns, 1)
firstNameField(row) == OrChain(row, FirstNameColumns, 1)
lastNameField(row) == OrChain(row, LastNameColumns, 1)

\* the split of 'name' is used when there is no firstName and no lastName
UsesNameSplit(row) ==
    ~ Truthy(firstNameField(row)) /\ ~ Truthy(lastNameField(row)) /\ Truthy(nameField(row))

\* firstName and lastName after the optional split of 'name'
firstName(row) ==
    IF UsesNameSplit(row) THEN FirstPart(trim(nameField(row))) ELSE firstNameField(row)

\* mutant: the last name is nameParts[1], the second word only
lastName_SecondWord(row) ==
    IF UsesNameSplit(row) THEN FirstPart(RestParts(trim(nameField(row))))
    ELSE lastNameField(row)

lastName(row) ==
    IF UsesNameSplit(row) THEN RestParts(trim(nameField(row))) ELSE lastNameField(row)

MissingFields == "Missing required fields (name and phone)"
InvalidPhone == "Invalid phone number format"
\* error.message of the TypeError lastName.trim() raises when lastName is undefined
TrimOfUndefined == "Cannot read properties of undefined (reading 'trim')"

ErrorLine(n, text) == [line |-> n, text |-> text]

\* What the handler does with one row: kind "error" (a message is pushed to
\* errors) or kind "lead" (a lead is pushed to leads).
DataHandler(row, n) ==
    IF ~ Truthy(firstName(row)) \/ ~ Truthy(phoneField(row))
    THEN [kind |-> "error", error |-> ErrorLine(n, MissingFields)]
    ELSE IF ~ PhoneRegexTest(CleanPhone(phoneField(row)))
    THEN [kind |-> "error", error |-> ErrorLine(n, InvalidPhone)]
    ELSE IF lastName(row) = Undef
    THEN [kind |-> "error", error |-> ErrorLine(n, TrimOfUndefined)]
    ELSE [kind |-> "lead",
          lead |-> [firstName |-> trim(firstName(row)),
                    lastName |-> trim(lastName(row)),
                    phone |-> formatPhoneNumber(CleanPhone(phoneField(row)))]]

(***************************************************************************)
(* uploadLeadsFromCSV: the 'end' handler and storage                       *)
(***************************************************************************)
Organizations == {"orgA", "orgB"}
Campaigns == {"camp1", "camp2"}

\* the lead of storage with the conflict target (organization_id, phone), if any
Existing(table, org, phone) == {l \in table : l.organization_id = org /\ l.phone = phone}

\* mutant: a plain insert, the conflict target is ignored
UpsertOne_InsertOnly(st, org, campaign, lead) ==
    [table |-> st.table \cup {[id |-> st.nextId, organization_id |-> org,
                               campaign_id |-> campaign,
                               first_name |-> lead.firstName, last_name |-> lead.lastName,
                               phone |-> lead.phone, call_status |-> "pending"]},
     nextId |-> st.nextId + 1,
     returned |-> st.returned + 1]

\* upsert of one row with onConflict 'organization_id,phone', ignoreDuplicates false
UpsertOne(st, org, campaign, lead) ==
    LET old == Existing(st.table, org, lead.phone)
        id == IF old = {} THEN st.nextId ELSE (CHOOSE l \in old : TRUE).id
        new == [id |-> id, organization_id |-> org, campaign_id |-> campaign,
                first_name |-> lead.firstName, last_name |-> lead.lastName,
                phone |-> lead.phone, call_status |-> "pending"]
    IN [table |-> (st.table \ old) \cup {new},
        nextId |-> IF old = {} THEN st.nextId + 1 ELSE st.nextId,
        returned |-> st.returned + 1]

\* the rows of the batch applied in order
RECURSIVE UpsertAll(_, _, _, _, _)
UpsertAll(st, org, campaign, batch, i) ==
    IF i > Len(batch) THEN st
    ELSE UpsertAll(UpsertOne(st, org, campaign, batch[i]), org, campaign, batch, i + 1)

UploadIdle ==
    /\ leadsTable = {}
    /\ nextLeadId = 1
    /\ upPc = "idle"
    /\ upOrg = "orgA"
    /\ upCampaign = "camp1"
    /\ csvRows = <<>>
    /\ lineNumber = 0
    /\ leads = <<>>
    /\ errors = <<>>
    /\ upResult = [success |-> 0, failed |-> 0]
    /\ uploadsDone = 0

\* .on('data', row => ...): csv-parser emits the next row of the CSV, one of
\* rows; the CSV has at most maxRows rows
OnData(rows, maxRows) ==
    /\ upPc = "data"
    /\ lineNumber < maxRows
    /\ \E row \in rows :
          LET n == lineNumber + 1
              r == DataHandler(row, n)
          IN /\ csvRows' = Append(csvRows, row)
             /\ lineNumber' = n
             /\ IF r.kind = "lead"
                THEN leads' = Append(leads, r.lead) /\ UNCHANGED errors
                ELSE errors' = Append(errors, r.error) /\ UNCHANGED leads
    /\ UNCHANGED <<leadsTable, nextLeadId, upPc, upOrg, upCampaign, upResult, uploadsDone>>
    /\ UNCHANGED fmtVars
    /\ UNCHANGED <<campVars, adminVars>>

\* .on('end', ...): the stream has no more rows
OnEnd ==
    /\ upPc = "data"
    /\ upPc' = "end"
    /\ UNCHANGED <<leadsTable, nextLeadId, upOrg, upCampaign, csvRows, lineNumber,
                   leads, errors, upResult, uploadsDone>>
    /\ UNCHANGED fmtVars
    /\ UNCHANGED <<campVars, adminVars>>

\* the upsert of the parsed leads succeeded: resolve({success, failed, errors})
UpsertResolve ==
    /\ upPc = "end"
    /\ LET st == UpsertAll([table |-> leadsTable, nextId |-> nextLeadId, returned |-> 0],
                           upOrg, upCampaign, leads, 1)
       IN /\ leadsTable' = st.table
          /\ nextLeadId' = st.nextId
          /\ upResult' = [success |-> st.returned, failed |-> Len(errors)]
    /\ upPc' = "resolved"
    /\ UNCHANGED <<upOrg, upCampaign, csvRows, lineNumber, leads, errors, uploadsDone>>
    /\ UNCHANGED fmtVars
    /\ UNCHANGED <<campVars, adminVars>>

\* the upsert returned insertError: reject(error), storage unchanged
UpsertReject ==
    /\ upPc = "end"
    /\ upPc' = "rejected"
    /\ UNCHANGED <<leadsTable, nextLeadId, upOrg, upCampaign, csvRows, lineNumber,
                   leads, errors, upResult, uploadsDone>>
    /\ UNCHANGED fmtVars
    /\ UNCHANGED <<campVars, adminVars>>

(***************************************************************************)
(* Normalisation runs: the inputs                                          *)
(***************************************************************************)
\* leading characters that select the branches of formatPhoneNumber
PhoneHeads ==
    { <<>>, <<"+">>, <<"1">>, <<"4", "4">>, <<"+", "4", "4">>, <<"3", "5", "6">>,
      <<"3", "9">>, <<"3", "3">>, <<"4", "9">>, <<"0">>, <<"(", "0">>,
      <<"9">>, <<"7">>, <<"a">> }

PhoneBodyChars == {"2", "-"}

PhoneTails == { <<>>, <<"5">>, <<"0", ")">> }

PhoneInputs ==
    { h \o b \o t : h \in PhoneHeads, b \in SeqsUpTo(PhoneBodyChars, MaxBody), t \in PhoneTails }

FmtInit ==
    /\ fmtPc = "input"
    /\ fmtIn \in PhoneInputs
    /\ fmtOut = <<>>
    /\ vapiNumber = <<>>
    /\ UploadIdle
    /\ CampIdle

\* makeCall, line 747: const formattedPhone = this.formatPhoneNumber(lead.phone)
FormatPhone ==
    /\ fmtPc = "input"
    /\ fmtOut' = formatPhoneNumber(fmtIn)
    /\ fmtPc' = "formatted"
    /\ UNCHANGED <<fmtIn, vapiNumber>>
    /\ UNCHANGED upVars
    /\ UNCHANGED <<campVars, adminVars>>

\* makeCall, line 751: the number put into the call request
BuildVapiNumber ==
    /\ fmtPc = "formatted"
    /\ vapiNumber' = EnsurePlusPrefix(fmtOut)
    /\ fmtPc' = "dialled"
    /\ UNCHANGED <<fmtIn, fmtOut>>
    /\ UNCHANGED upVars
    /\ UNCHANGED <<campVars, adminVars>>

FmtNext == FormatPhone \/ BuildVapiNumber

SpecFmt == FmtInit /\ [][FmtNext]_vars

(***************************************************************************)
(* A phone that is stored and then dialled                                 *)
(*                                                                         *)
(* fmtIn is the phone of a CSV row after its separators are removed, the   *)
(* lead in leadsTable is what uploadLeadsFromCSV stores for it, fmtOut and *)
(* vapiNumber are formattedPhone and vapiPhoneNumber of the makeCall for   *)
(* that lead.                                                              *)
(***************************************************************************)
\* uploadLeadsFromCSV, line 324: phone: this.formatPhoneNumber(cleanPhone)
StorePhone ==
    /\ fmtPc = "input"
    /\ leadsTable' = {[id |-> 1, organization_id |-> "orgA", campaign_id |-> "camp1",
                       first_name |-> <<"a">>, last_name |-> <<"b">>,
                       phone |-> formatPhoneNumber(fmtIn), call_status |-> "pending"]}
    /\ fmtPc' = "stored"
    /\ UNCHANGED <<fmtIn, fmtOut, vapiNumber>>
    /\ UNCHANGED uploadCtl
    /\ UNCHANGED <<campVars, adminVars>>

\* makeCall, lines 747-751, for the stored lead
DialStored ==
    /\ fmtPc = "stored"
    /\ \E lead \in leadsTable :
          /\ fmtOut' = formatPhoneNumber(lead.phone)
          /\ vapiNumber' = EnsurePlusPrefix(formatPhoneNumber(lead.phone))
    /\ fmtPc' = "dialled"
    /\ UNCHANGED fmtIn
    /\ UNCHANGED upVars
    /\ UNCHANGED <<campVars, adminVars>>

DialNext == StorePhone \/ DialStored

SpecDial == FmtInit /\ [][DialNext]_vars

(***************************************************************************)
(* Rows of the CSV                                                         *)
(***************************************************************************)
\* the row with the columns of a set to their values and every other column absent
Row(a) == [c \in Columns |-> IF c \in DOMAIN a THEN a[c] ELSE Undef]

\* a valid phone of its own for each phone column, to tell the columns apart
ColumnPhoneValue(c) ==
    CASE c = "phone" -> <<"1", "1">>
      [] c = "number" -> <<"1", "2">>
      [] c = "telephone" -> <<"1", "3">>
      [] c = "phoneNumber" -> <<"1", "4">>
      [] c = "Phone" -> <<"1", "5">>
      [] c = "Number" -> <<"1", "6">>

\* rows that differ in which phone columns are absent, empty or filled
AliasRows ==
    { [c \in Columns |->
          IF c \in Range(PhoneColumns)
          THEN (IF f[c] = "absent" THEN Undef
                ELSE IF f[c] = "empty" THEN <<>> ELSE ColumnPhoneValue(c))
          ELSE IF c = "name" THEN n ELSE Undef]
      : f \in [Range(PhoneColumns) -> {"absent", "empty", "filled"}],
        n \in {Undef, <<"a">>} }

NameValues ==
    SeqsUpTo({"a", " "}, MaxNameLen)
        \cup {Undef, <<"a", "b", " ", "c", " ", " ", "d">>}

ColumnStates(v) == {Undef, <<>>, v}

\* rows that differ in the name, first-name and last-name columns
NameRows ==
    { Row([name |-> n, Name |-> n2, firstName |-> f1, firstname |-> f2,
           lastName |-> l1, lastname |-> l2, phone |-> <<"1", "2">>])
      : n \in NameValues, n2 \in {Undef, <<"b", " ", "c">>},
        f1 \in ColumnStates(<<"f">>), f2 \in ColumnStates(<<"g", " ">>),
        l1 \in ColumnStates(<<"l">>), l2 \in ColumnStates(<<" ", "m">>) }

PhoneAlphabet == {"+", "0", "1", "a", "-"}

Ones(k) == [i \in 1..k |-> "1"]

PhoneValues ==
    SeqsUpTo(PhoneAlphabet, MaxPhoneLen)
        \cup { pre \o Ones(k) : pre \in {<<>>, <<"+">>, <<"(", "0", ")">>}, k \in 14..17 }
        \cup { <<"1", " ", "(", "2", ")", "-", "3">>, <<"9", "1", "2", "3", "4", "5", "6", "7">> }

\* rows that differ in the phone value
PhoneRows ==
    { Row([name |-> n, phone |-> ph]) : n \in {Undef, <<"a">>}, ph \in PhoneValues }

RowInputs == AliasRows \cup NameRows \cup PhoneRows

\* the rows the uploads of Spec are made of
UploadRows ==
    { Row([name |-> <<"a", " ", "b">>, phone |-> <<"1", "2">>]),
      Row([name |-> <<"a", " ", "b">>, phone |-> <<"+", "1", "-", "2">>]),
      Row([firstName |-> <<"f">>, lastName |-> <<"l">>, number |-> <<"(", "3", "4", ")">>]),
      Row([firstName |-> <<"f">>, phone |-> <<"3", "4">>]),
      Row([name |-> <<"a">>, phone |-> <<"0", "7">>]) }

(***************************************************************************)
(* Specifications                                                          *)
(***************************************************************************)
FmtIdle ==
    /\ fmtPc = "input"
    /\ fmtIn = <<>>
    /\ fmtOut = <<>>
    /\ vapiNumber = <<>>

\* uploadLeadsFromCSV(campaignId, csvData) is called on the service of an organization
StartUpload ==
    /\ upPc \in {"idle", "resolved", "rejected"}
    /\ uploadsDone < MaxUploads
    /\ \E org \in Organizations, campaign \in Campaigns :
            /\ upOrg' = org
            /\ upCampaign' = campaign
    /\ csvRows' = <<>>
    /\ upPc' = "data"
    /\ lineNumber' = 0
    /\ leads' = <<>>
    /\ errors' = <<>>
    /\ upResult' = [success |-> 0, failed |-> 0]
    /\ uploadsDone' = uploadsDone + 1
    /\ UNCHANGED <<leadsTable, nextLeadId>>
    /\ UNCHANGED fmtVars
    /\ UNCHANGED <<campVars, adminVars>>

Init == FmtIdle /\ UploadIdle /\ CampIdle

Next ==
    StartUpload \/ OnData(UploadRows, MaxRows) \/ OnEnd \/ UpsertResolve \/ UpsertReject

Spec == Init /\ [][Next]_vars

\* storage that holds one lead in a final call_status, whose phone a row of
\* UploadRows has
FinalStatuses == {"completed", "do_not_call"}

StoredFinalLeads ==
    { {[id |-> 1, organization_id |-> "orgA", campaign_id |-> campaign,
        first_name |-> <<"a">>, last_name |-> <<"b">>,
        phone |-> formatPhoneNumber(<<"1", "2">>), call_status |-> status]} :
      campaign \in Campaigns, status \in FinalStatuses }

ReuploadInit ==
    /\ FmtIdle
    /\ leadsTable \in StoredFinalLeads
    /\ nextLeadId = 2
    /\ upPc = "idle"
    /\ upOrg = "orgA"
    /\ upCampaign = "camp1"
    /\ csvRows = <<>>
    /\ lineNumber = 0
    /\ leads = <<>>
    /\ errors = <<>>
    /\ upResult = [success |-> 0, failed |-> 0]
    /\ uploadsDone = 0
    /\ CampIdle

\* uploads into storage that holds a lead in a final call_status
SpecReupload == ReuploadInit /\ [][Next]_vars

\* one upload of a CSV with at most one row, into empty storage
RowInit ==
    /\ FmtIdle
    /\ leadsTable = {}
    /\ nextLeadId = 1
    /\ upPc = "data"
    /\ upOrg = "orgA"
    /\ upCampaign = "camp1"
    /\ csvRows = <<>>
    /\ lineNumber = 0
    /\ leads = <<>>
    /\ errors = <<>>
    /\ upResult = [success |-> 0, failed |-> 0]
    /\ uploadsDone = 1
    /\ CampIdle

RowNext == OnData(RowInputs, 1) \/ OnEnd \/ UpsertResolve \/ UpsertReject

SpecRow == RowInit /\ [][RowNext]_vars

(***************************************************************************)
(* Campaign storage                                                        *)
(*                                                                         *)
(* Table 'campaigns' is a function from campaign id to its row, 'leads' is *)
(* leadsTable, 'calls' is a set of rows.  A lead's id stands for its       *)
(* created_at: a lower id was created earlier.  The storage faults         *)
(* modelled are those the code branches on (an error it tests, data it     *)
(* tests for null); an update whose result the code discards is applied.   *)
(***************************************************************************)
Null == "null"

MaxInvocations == 2

\* the campaigns of the campaign specifications and their organizations
CampaignOrg == [camp1 |-> "orgA", camp2 |-> "orgA", camp3 |-> "orgB"]

CampaignStatuses == {"draft", "active", "paused"}

LeadStatuses == {"pending", "calling", "completed", "failed", "no_answer", "busy", "do_not_call"}

Min(a, b) == IF a <= b THEN a ELSE b

\* .order('created_at', { ascending: true })
RECURSIVE OrderByCreatedAt(_)
OrderByCreatedAt(S) ==
    IF S = {} THEN <<>>
    ELSE LET first == CHOOSE l \in S : \A m \in S : l.id <= m.id
         IN <<first>> \o OrderByCreatedAt(S \ {first})

Reverse(s) == [i \in 1..Len(s) |-> s[Len(s) + 1 - i]]

\* the rows of a query without .order(): in the order storage scans them
Scan(S, order) ==
    IF order = "asc" THEN OrderByCreatedAt(S) ELSE Reverse(OrderByCreatedAt(S))

\* .limit(n)
Limit(rows, n) == SubSeq(rows, 1, Min(n, Len(rows)))

Ids(rows) == {rows[i].id : i \in 1..Len(rows)}

\* .eq('campaign_id', campaignId).eq('call_status', 'pending')
PendingLeads(table, campaignId) ==
    {l \in table : l.campaign_id = campaignId /\ l.call_status = "pending"}

\* .update(fields).in('id', ids) on table 'leads'
SetCallStatus(table, ids, status) ==
    {IF l.id \in ids THEN [l EXCEPT !.call_status = status] ELSE l : l \in table}

SetCampaign(table, ids, campaignId) ==
    {IF l.id \in ids THEN [l EXCEPT !.campaign_id = campaignId] ELSE l : l \in table}

\* .update({ status }).eq('id', campaignId) on table 'campaigns'
SetCampaignStatus(table, campaignId, status) ==
    [c \in DOMAIN table |-> IF c = campaignId THEN [table[c] EXCEPT !.status = status]
                                              ELSE table[c]]

\* .update({ status }).eq('id', campaignId).eq('organization_id', org)
SetCampaignStatusInOrg(table, campaignId, org, status) ==
    [c \in DOMAIN table |->
        IF c = campaignId /\ table[c].organization_id = org
        THEN [table[c] EXCEPT !.status = status]
        ELSE table[c]]

(***************************************************************************)
(* Invocations of the service                                              *)
(*                                                                         *)
(* procs[p] is one invocation of startCampaign or resumeCampaign on a      *)
(* service of organization procs[p].organization_id, followed by the       *)
(* processCampaignCalls run it starts.  pc is the await it is suspended    *)
(* at; every await is one step.  result is how the invocation itself       *)
(* ended: "pending", "resolved" or the message of the error it raised.     *)
(***************************************************************************)
CampaignNotFound == "Campaign not found"
FailedToFetchLeads == "Failed to fetch leads"
FailedToFetchCampaignLeads == "Failed to fetch campaign leads"
NoLeadsFound == "No leads found for campaign. Please upload leads first."

NewInvocation(kind, org, campaignId) ==
    [kind |-> kind, organization_id |-> org, campaign |-> campaignId,
     pc |-> IF kind = "start" THEN "getCampaign" ELSE "resumeUpdate",
     result |-> "pending",
     leads |-> <<>>, allCampaignLeads |-> <<>>, orgLeads |-> <<>>,
     otherCampaignLeads |-> <<>>,
     runLeads |-> <<>>, idx |-> 0, attempts |-> <<>>, outcomes |-> <<>>, waited |-> 0]

Invoke(kinds, campaignIds, maxProcs) ==
    /\ Len(procs) < maxProcs
    /\ \E kind \in kinds, campaignId \in campaignIds :
          procs' = Append(procs, NewInvocation(kind, "orgA", campaignId))
    /\ UNCHANGED <<campaigns, calls, vapiCalls, scanOrder, requests, leadsTable>>
    /\ UNCHANGED <<fmtVars, uploadCtl, adminVars>>

\* the part of every step of an invocation that is the same
At(p, pc) == p \in 1..Len(procs) /\ procs[p].pc = pc

(***************************************************************************)
(* processCampaignCalls                                                    *)
(***************************************************************************)
RunFetchLimit == 5
CallDelayMs == 2000

\* processCampaignCalls is called and not awaited: the caller goes on
StartRun(pr) == [pr EXCEPT !.pc = "fetchLeads", !.result = "resolved"]

\* the fetch of the batch; a failed fetch gives null and the run returns
FetchRunLeads(p) ==
    /\ At(p, "fetchLeads")
    /\ \E failed \in BOOLEAN :
          LET pr == procs[p]
              rows == Limit(Scan(PendingLeads(leadsTable, pr.campaign), scanOrder),
                            RunFetchLimit)
          IN IF failed \/ rows = <<>>
             THEN procs' = [procs EXCEPT ![p].pc = "done"]
             ELSE procs' = [procs EXCEPT ![p].pc = "fetchConfig", ![p].runLeads = rows]
    /\ UNCHANGED <<campaigns, calls, vapiCalls, scanOrder, requests, leadsTable>>
    /\ UNCHANGED <<fmtVars, uploadCtl, adminVars>>

\* mutant: the loop ends when the campaign is paused
NextLead_UnlessPaused(pr) ==
    IF pr.idx < Len(pr.runLeads) /\ campaigns[pr.campaign].status # "paused"
    THEN [pr EXCEPT !.pc = "createCall", !.idx = pr.idx + 1,
                    !.attempts = Append(pr.attempts, pr.runLeads[pr.idx + 1].id)]
    ELSE [pr EXCEPT !.pc = "done"]

\* the loop goes to its next lead, or the run ends
NextLead(pr) ==
    IF pr.idx < Len(pr.runLeads)
    THEN [pr EXCEPT !.pc = "createCall", !.idx = pr.idx + 1,
                    !.attempts = Append(pr.attempts, pr.runLeads[pr.idx + 1].id)]
    ELSE [pr EXCEPT !.pc = "done"]

\* the fetch of the campaign by id; without a row the run raises inside its
\* own try and the outer catch logs it
FetchConfig(p) ==
    /\ At(p, "fetchConfig")
    /\ \E failed \in BOOLEAN :
          IF failed \/ procs[p].campaign \notin DOMAIN campaigns
          THEN procs' = [procs EXCEPT ![p].pc = "done"]
          ELSE procs' = [procs EXCEPT ![p] = NextLead(procs[p])]
    /\ UNCHANGED <<campaigns, calls, vapiCalls, scanOrder, requests, leadsTable>>
    /\ UNCHANGED <<fmtVars, uploadCtl, adminVars>>

(***************************************************************************)
(* makeCall, as called from the loop of processCampaignCalls               *)
(***************************************************************************)
CurrentLead(pr) == pr.runLeads[pr.idx]

\* the id the calling API gives the call of attempt idx of invocation p
VapiCallId(p, idx) == <<p, idx>>

\* vapiService.createCall; the API notes the number it dials, and the status
\* the campaign has at that moment is kept with the call
CreateCall(p) ==
    /\ At(p, "createCall")
    /\ LET pr == procs[p]
           formattedPhone == formatPhoneNumber(CurrentLead(pr).phone)
       IN \/ /\ vapiCalls' = vapiCalls \cup
                     {[id |-> VapiCallId(p, pr.idx),
                       number |-> EnsurePlusPrefix(formattedPhone),
                       campaign_status |-> IF pr.campaign \in DOMAIN campaigns
                                           THEN campaigns[pr.campaign].status
                                           ELSE Null]}
             /\ procs' = [procs EXCEPT ![p].pc = "insertCall"]
          \/ /\ procs' = [procs EXCEPT ![p].pc = "markFailed"]
             /\ UNCHANGED vapiCalls
    /\ UNCHANGED <<campaigns, calls, scanOrder, requests, leadsTable>>
    /\ UNCHANGED <<fmtVars, uploadCtl, adminVars>>

CallRecord(p, pr) ==
    [organization_id |-> pr.organization_id,
     campaign_id |-> pr.campaign,
     lead_id |-> CurrentLead(pr).id,
     vapi_call_id |-> VapiCallId(p, pr.idx),
     phone_number |-> formatPhoneNumber(CurrentLead(pr).phone),
     status |-> "initiated"]

\* mutant: no second call record for a lead that has one
InsertCall_OncePerLead(p) ==
    /\ At(p, "insertCall")
    /\ \/ /\ calls' = IF \E c \in calls : c.lead_id = CurrentLead(procs[p]).id
                       THEN calls
                       ELSE calls \cup {CallRecord(p, procs[p])}
          /\ procs' = [procs EXCEPT ![p].pc = "markCalling"]
       \/ /\ procs' = [procs EXCEPT ![p].pc = "markFailed"]
          /\ UNCHANGED calls
    /\ UNCHANGED <<campaigns, vapiCalls, scanOrder, requests, leadsTable>>
    /\ UNCHANGED <<fmtVars, uploadCtl, adminVars>>

\* the insert into 'calls'; callError is raised
InsertCall(p) ==
    /\ At(p, "insertCall")
    /\ \/ /\ calls' = calls \cup {CallRecord(p, procs[p])}
          /\ procs' = [procs EXCEPT ![p].pc = "markCalling"]
       \/ /\ procs' = [procs EXCEPT ![p].pc = "markFailed"]
          /\ UNCHANGED calls
    /\ UNCHANGED <<campaigns, vapiCalls, scanOrder, requests, leadsTable>>
    /\ UNCHANGED <<fmtVars, uploadCtl, adminVars>>

\* mutant: the lead is not updated
MarkCalling_NoUpdate(p) ==
    /\ At(p, "markCalling")
    /\ procs' = [procs EXCEPT ![p].pc = "delay",
                              ![p].outcomes = Append(@, "returned")]
    /\ UNCHANGED <<campaigns, calls, vapiCalls, scanOrder, requests, leadsTable>>
    /\ UNCHANGED <<fmtVars, uploadCtl, adminVars>>

\* the update of the lead to 'calling'; makeCall returns and the loop
\* starts its delay
MarkCalling(p) ==
    /\ At(p, "markCalling")
    /\ leadsTable' = SetCallStatus(leadsTable, {CurrentLead(procs[p]).id}, "calling")
    /\ procs' = [procs EXCEPT ![p].pc = "delay",
                              ![p].outcomes = Append(@, "returned")]
    /\ UNCHANGED <<campaigns, calls, vapiCalls, scanOrder, requests>>
    /\ UNCHANGED <<fmtVars, uploadCtl, adminVars>>

\* the timer of the loop fires
Delay(p) ==
    /\ At(p, "delay")
    /\ procs' = [procs EXCEPT ![p] = NextLead([procs[p] EXCEPT
                                                  !.waited = @ + CallDelayMs])]
    /\ UNCHANGED <<campaigns, calls, vapiCalls, scanOrder, requests, leadsTable>>
    /\ UNCHANGED <<fmtVars, uploadCtl, adminVars>>

\* mutant: the loop tries the lead again after a failure
AfterRaise_Retry(pr) ==
    [pr EXCEPT !.pc = "createCall", !.attempts = Append(pr.attempts, CurrentLead(pr).id)]

\* makeCall raised: the catch of the loop logs and the loop goes on
AfterRaise(pr) == NextLead(pr)

\* mutant: the error of makeCall ends the run and reaches the caller
MarkFailed_Rethrow(p) ==
    /\ At(p, "markFailed")
    /\ leadsTable' = SetCallStatus(leadsTable, {CurrentLead(procs[p]).id}, "failed")
    /\ procs' = [procs EXCEPT ![p].pc = "done", ![p].result = "Failed to call lead",
                              ![p].outcomes = Append(@, "raised")]
    /\ UNCHANGED <<campaigns, calls, vapiCalls, scanOrder, requests>>
    /\ UNCHANGED <<fmtVars, uploadCtl, adminVars>>

\* the catch of makeCall: the lead is set to 'failed' and the error raised
MarkFailed(p) ==
    /\ At(p, "markFailed")
    /\ leadsTable' = SetCallStatus(leadsTable, {CurrentLead(procs[p]).id}, "failed")
    /\ procs' = [procs EXCEPT ![p] = AfterRaise([procs[p] EXCEPT
                                                    !.outcomes = Append(@, "raised")])]
    /\ UNCHANGED <<campaigns, calls, vapiCalls, scanOrder, requests>>
    /\ UNCHANGED <<fmtVars, uploadCtl, adminVars>>

(***************************************************************************)
(* pauseCampaign and resumeCampaign                                        *)
(***************************************************************************)
PauseCampaign(org, campaignIds) ==
    /\ \E campaignId \in campaignIds :
          campaigns' = SetCampaignStatusInOrg(campaigns, campaignId, org, "paused")
    /\ UNCHANGED <<calls, vapiCalls, procs, scanOrder, requests, leadsTable>>
    /\ UNCHANGED <<fmtVars, uploadCtl, adminVars>>

ResumeUpdate(p) ==
    /\ At(p, "resumeUpdate")
    /\ campaigns' = SetCampaignStatusInOrg(campaigns, procs[p].campaign,
                                           procs[p].organization_id, "active")
    /\ procs' = [procs EXCEPT ![p] = StartRun(procs[p])]
    /\ UNCHANGED <<calls, vapiCalls, scanOrder, requests, leadsTable>>
    /\ UNCHANGED <<fmtVars, uploadCtl, adminVars>>

(***************************************************************************)
(* startCampaign                                                           *)
(***************************************************************************)
\* mutant: a lead that is being called is reset too
ResetableStatuses_WithCalling == {"failed", "no_answer", "busy", "calling"}

ResetableStatuses == {"failed", "no_answer", "busy"}
ReassignableStatuses == {"pending", "failed", "no_answer", "busy"}
OrgLeadsLimit == 10
OtherLeadsLimit == 5

Raise(pr, message) == [pr EXCEPT !.pc = "raised", !.result = message]

\* mutant: the campaign by id alone
GetCampaign_AnyOrganization(p) ==
    /\ At(p, "getCampaign")
    /\ \E campaignError \in BOOLEAN :
          IF campaignError \/ procs[p].campaign \notin DOMAIN campaigns
          THEN procs' = [procs EXCEPT ![p] = Raise(procs[p], CampaignNotFound)]
          ELSE procs' = [procs EXCEPT ![p].pc = "getPending"]
    /\ UNCHANGED <<campaigns, calls, vapiCalls, scanOrder, requests, leadsTable>>
    /\ UNCHANGED <<fmtVars, uploadCtl, adminVars>>

\* the campaign by id and organization_id, .single()
GetCampaign(p) ==
    /\ At(p, "getCampaign")
    /\ \E campaignError \in BOOLEAN :
          LET pr == procs[p]
              found == /\ pr.campaign \in DOMAIN campaigns
                       /\ campaigns[pr.campaign].organization_id = pr.organization_id
          IN IF campaignError \/ ~ found
             THEN procs' = [procs EXCEPT ![p] = Raise(pr, CampaignNotFound)]
             ELSE procs' = [procs EXCEPT ![p].pc = "getPending"]
    /\ UNCHANGED <<campaigns, calls, vapiCalls, scanOrder, requests, leadsTable>>
    /\ UNCHANGED <<fmtVars, uploadCtl, adminVars>>

\* the pending leads of the campaign
GetPending(p) ==
    /\ At(p, "getPending")
    /\ \E leadsError \in BOOLEAN :
          LET pr == procs[p]
              rows == OrderByCreatedAt(PendingLeads(leadsTable, pr.campaign))
          IN IF leadsError
             THEN procs' = [procs EXCEPT ![p] = Raise(pr, FailedToFetchLeads)]
             ELSE procs' = [procs EXCEPT ![p].leads = rows,
                                         ![p].pc = IF rows = <<>> THEN "getAll"
                                                                  ELSE "activate"]
    /\ UNCHANGED <<campaigns, calls, vapiCalls, scanOrder, requests, leadsTable>>
    /\ UNCHANGED <<fmtVars, uploadCtl, adminVars>>

\* allCampaignLeads.filter(l => resetableStatuses.includes(l.call_status))
LeadsToReset(allCampaignLeads) ==
    {allCampaignLeads[i].id : i \in {j \in 1..Len(allCampaignLeads) :
                                        allCampaignLeads[j].call_status \in ResetableStatuses}}

\* all leads of the campaign
GetAll(p) ==
    /\ At(p, "getAll")
    /\ \E allLeadsError \in BOOLEAN :
          LET pr == procs[p]
              rows == OrderByCreatedAt({l \in leadsTable : l.campaign_id = pr.campaign})
          IN IF allLeadsError
             THEN procs' = [procs EXCEPT ![p] = Raise(pr, FailedToFetchCampaignLeads)]
             ELSE procs' = [procs EXCEPT ![p].allCampaignLeads = rows,
                                         ![p].pc = IF LeadsToReset(rows) # {}
                                                   THEN "reset" ELSE "getOrg"]
    /\ UNCHANGED <<campaigns, calls, vapiCalls, scanOrder, requests, leadsTable>>
    /\ UNCHANGED <<fmtVars, uploadCtl, adminVars>>

\* the reset of the leads in a resetable status to 'pending'
ResetLeads(p) ==
    /\ At(p, "reset")
    /\ \E resetError \in BOOLEAN :
          IF resetError
          THEN /\ procs' = [procs EXCEPT ![p].pc = "getOrg"]
               /\ UNCHANGED leadsTable
          ELSE /\ leadsTable' = SetCallStatus(leadsTable,
                                     LeadsToReset(procs[p].allCampaignLeads), "pending")
               /\ procs' = [procs EXCEPT ![p].pc = "refetch"]
    /\ UNCHANGED <<campaigns, calls, vapiCalls, scanOrder, requests>>
    /\ UNCHANGED <<fmtVars, uploadCtl, adminVars>>

\* the pending leads again; a failed fetch gives null
Refetch(p) ==
    /\ At(p, "refetch")
    /\ \E failed \in BOOLEAN :
          LET resetLeads == OrderByCreatedAt(PendingLeads(leadsTable, procs[p].campaign))
          IN procs' = [procs EXCEPT ![p].pc = IF failed \/ resetLeads = <<>>
                                              THEN "getOrg" ELSE "activate"]
    /\ UNCHANGED <<campaigns, calls, vapiCalls, scanOrder, requests, leadsTable>>
    /\ UNCHANGED <<fmtVars, uploadCtl, adminVars>>

\* mutant: the last resort is taken whatever the first fallback found
AfterOrgLeads_AlwaysOther(rows) == "getOther"

\* else if (orgLeads && orgLeads.length > 0) ... else ...
AfterOrgLeads(rows) == IF rows # <<>> THEN "assign" ELSE "getOther"

\* first fallback: pending leads of the organization without a campaign
GetOrgLeads(p) ==
    /\ At(p, "getOrg")
    /\ \E orgLeadsError \in BOOLEAN :
          LET pr == procs[p]
              rows == Limit(Scan({l \in leadsTable :
                                     /\ l.organization_id = pr.organization_id
                                     /\ l.call_status = "pending"
                                     /\ l.campaign_id = Null}, scanOrder),
                            OrgLeadsLimit)
          IN IF orgLeadsError
             THEN procs' = [procs EXCEPT ![p] = Raise(pr, NoLeadsFound)]
             ELSE procs' = [procs EXCEPT ![p].orgLeads = rows,
                                         ![p].pc = AfterOrgLeads(rows)]
    /\ UNCHANGED <<campaigns, calls, vapiCalls, scanOrder, requests, leadsTable>>
    /\ UNCHANGED <<fmtVars, uploadCtl, adminVars>>

AssignLeads(p) ==
    /\ At(p, "assign")
    /\ \E assignError \in BOOLEAN :
          IF assignError
          THEN /\ procs' = [procs EXCEPT ![p] = Raise(procs[p], NoLeadsFound)]
               /\ UNCHANGED leadsTable
          ELSE /\ leadsTable' = SetCampaign(leadsTable, Ids(procs[p].orgLeads),
                                            procs[p].campaign)
               /\ procs' = [procs EXCEPT ![p].pc = "activate"]
    /\ UNCHANGED <<campaigns, calls, vapiCalls, scanOrder, requests>>
    /\ UNCHANGED <<fmtVars, uploadCtl, adminVars>>

\* last resort: leads of the organization that have a campaign
GetOtherLeads(p) ==
    /\ At(p, "getOther")
    /\ \E otherLeadsError \in BOOLEAN :
          LET pr == procs[p]
              rows == Limit(Scan({l \in leadsTable :
                                     /\ l.organization_id = pr.organization_id
                                     /\ l.call_status \in ReassignableStatuses
                                     /\ l.campaign_id # Null}, scanOrder),
                            OtherLeadsLimit)
          IN IF otherLeadsError \/ rows = <<>>
             THEN procs' = [procs EXCEPT ![p] = Raise(pr, NoLeadsFound)]
             ELSE procs' = [procs EXCEPT ![p].otherCampaignLeads = rows,
                                         ![p].pc = "reassign"]
    /\ UNCHANGED <<campaigns, calls, vapiCalls, scanOrder, requests, leadsTable>>
    /\ UNCHANGED <<fmtVars, uploadCtl, adminVars>>

ReassignLeads(p) ==
    /\ At(p, "reassign")
    /\ \E reassignError \in BOOLEAN :
          IF reassignError
          THEN /\ procs' = [procs EXCEPT ![p] = Raise(procs[p], NoLeadsFound)]
               /\ UNCHANGED leadsTable
          ELSE /\ leadsTable' = SetCallStatus(
                                    SetCampaign(leadsTable,
                                                Ids(procs[p].otherCampaignLeads),
                                                procs[p].campaign),
                                    Ids(procs[p].otherCampaignLeads), "pending")
               /\ procs' = [procs EXCEPT ![p].pc = "activate"]
    /\ UNCHANGED <<campaigns, calls, vapiCalls, scanOrder, requests>>
    /\ UNCHANGED <<fmtVars, uploadCtl, adminVars>>

\* the campaign is set to 'active' by id, the run is started and
\* startCampaign returns
Activate(p) ==
    /\ At(p, "activate")
    /\ campaigns' = SetCampaignStatus(campaigns, procs[p].campaign, "active")
    /\ procs' = [procs EXCEPT ![p] = StartRun(procs[p])]
    /\ UNCHANGED <<calls, vapiCalls, scanOrder, requests, leadsTable>>
    /\ UNCHANGED <<fmtVars, uploadCtl, adminVars>>

(***************************************************************************)
(* Campaign specifications                                                 *)
(***************************************************************************)
PhoneDigits == <<"0", "1", "2", "3", "4", "5", "6", "7", "8", "9">>

\* a stored lead; its phone is as uploadLeadsFromCSV stores it
Lead(id, org, campaignId, status) ==
    [id |-> id, organization_id |-> org, campaign_id |-> campaignId,
     first_name |-> <<"a">>, last_name |-> <<"b">>,
     phone |-> <<"+", "4", "4", PhoneDigits[(id % 10) + 1]>>,
     call_status |-> status]

CampaignsInit ==
    [c \in DOMAIN CampaignOrg |-> [organization_id |-> CampaignOrg[c], status |-> "draft"]]

CampInit(leadTables, orders) ==
    /\ FmtIdle
    /\ nextLeadId = 1
    /\ upPc = "idle"
    /\ upOrg = "orgA"
    /\ upCampaign = "camp1"
    /\ csvRows = <<>>
    /\ lineNumber = 0
    /\ leads = <<>>
    /\ errors = <<>>
    /\ upResult = [success |-> 0, failed |-> 0]
    /\ uploadsDone = 0
    /\ campaigns = CampaignsInit
    /\ calls = {}
    /\ vapiCalls = {}
    /\ procs = <<>>
    /\ requests = <<>>
    /\ scanOrder \in orders
    /\ leadsTable \in leadTables
    /\ AdminIdle

\* one step of startCampaign
StartStep(p) ==
    \/ GetCampaign(p)
    \/ GetPending(p)
    \/ GetAll(p)
    \/ ResetLeads(p)
    \/ Refetch(p)
    \/ GetOrgLeads(p)
    \/ AssignLeads(p)
    \/ GetOtherLeads(p)
    \/ ReassignLeads(p)
    \/ Activate(p)

\* one step of processCampaignCalls
RunStep(p) ==
    \/ FetchRunLeads(p)
    \/ FetchConfig(p)
    \/ CreateCall(p)
    \/ InsertCall(p)
    \/ MarkCalling(p)
    \/ Delay(p)
    \/ MarkFailed(p)

\* one invocation, of startCampaign or resumeCampaign, and pauseCampaign
OwnLeads ==
    {{}} \cup
    {{Lead(1, "orgA", "camp1", s1), Lead(2, "orgA", "camp1", s2)} :
        s1 \in LeadStatuses, s2 \in {"pending", "failed", "completed"}}

ForeignLeads ==
    { {},
      {Lead(3, "orgA", "camp2", "failed")},
      {Lead(3, "orgA", "camp2", "completed"), Lead(4, "orgB", "camp3", "pending")},
      {Lead(3, "orgA", Null, "pending"), Lead(4, "orgA", "camp2", "pending")},
      {Lead(3, "orgB", Null, "pending"), Lead(4, "orgA", Null, "failed")} }

ManyLeads ==
    { {Lead(i, "orgA", "camp1", "pending") : i \in 1..(RunFetchLimit + 1)},
      {Lead(i, "orgA", Null, "pending") : i \in 1..(OrgLeadsLimit + 1)},
      {Lead(i, "orgA", "camp2", IF i % 2 = 0 THEN "pending" ELSE "no_answer") :
          i \in 1..(OtherLeadsLimit + 1)} }

LeadTables ==
    {own \cup foreign : own \in OwnLeads, foreign \in ForeignLeads} \cup ManyLeads

CampaignInit == CampInit(LeadTables, {"asc", "desc"})

CampaignNext ==
    \/ Invoke({"start", "resume"}, {"camp1", "camp3"}, 1)
    \/ PauseCampaign("orgA", {"camp1"})
    \/ StartStep(1)
    \/ ResumeUpdate(1)
    \/ RunStep(1)

SpecCampaign == CampaignInit /\ [][CampaignNext]_vars

\* overlapping invocations for one campaign with one pending lead; no lead
\* is without a campaign, so no invocation comes to attach one
OverlapLeadTables ==
    { {Lead(1, "orgA", "camp1", "pending")} }

OverlapInit == CampInit(OverlapLeadTables, {"asc"})

OverlapNext ==
    \/ Invoke({"start", "resume"}, {"camp1"}, MaxInvocations)
    \/ \E p \in 1..MaxInvocations :
          \/ GetCampaign(p)
          \/ GetPending(p)
          \/ GetAll(p)
          \/ ResetLeads(p)
          \/ Refetch(p)
          \/ GetOrgLeads(p)
          \/ GetOtherLeads(p)
          \/ ReassignLeads(p)
          \/ Activate(p)
          \/ ResumeUpdate(p)
          \/ RunStep(p)

SpecOverlap == OverlapInit /\ [][OverlapNext]_vars

(***************************************************************************)
(* The campaign routes: POST /api/campaigns/:id/start and /:id/pause       *)
(*                                                                         *)
(* requests[r] is one request to the start route: organizationId is the    *)
(* organization of the authenticated user (Null when it has none), pc the  *)
(* await the handler is suspended at, response the status code and the     *)
(* message it answered (code 0: not answered yet).                         *)
(***************************************************************************)
MaxRequests == 2

NoResponse == [code |-> 0, message |-> ""]

NewRequest(org, id) ==
    [organizationId |-> org, id |-> id, pc |-> "select", response |-> NoResponse]

Respond(req, code, message) ==
    [req EXCEPT !.pc = "done", !.response = [code |-> code, message |-> message]]

\* a request arrives; without an organization it is answered 401 at once
RouteStart(orgs, campaignIds, maxRequests) ==
    /\ Len(requests) < maxRequests
    /\ \E org \in orgs, id \in campaignIds :
          requests' = Append(requests,
                             IF org = Null
                             THEN Respond(NewRequest(org, id), 401, "Unauthorized")
                             ELSE NewRequest(org, id))
    /\ UNCHANGED <<campaigns, calls, vapiCalls, procs, scanOrder, leadsTable>>
    /\ UNCHANGED <<fmtVars, uploadCtl, adminVars>>

\* the campaign is read by id and organization_id and its status tested
RouteStartSelect(r) ==
    /\ r \in 1..Len(requests)
    /\ requests[r].pc = "select"
    /\ \E failed \in BOOLEAN :
          LET req == requests[r]
              found == /\ ~ failed
                       /\ req.id \in DOMAIN campaigns
                       /\ campaigns[req.id].organization_id = req.organizationId
          IN requests' = [requests EXCEPT ![r] =
                 IF ~ found THEN Respond(req, 404, "Campaign not found")
                 ELSE IF campaigns[req.id].status = "active"
                      THEN Respond(req, 400, "Campaign is already active")
                      ELSE [req EXCEPT !.pc = "update"]]
    /\ UNCHANGED <<campaigns, calls, vapiCalls, procs, scanOrder, leadsTable>>
    /\ UNCHANGED <<fmtVars, uploadCtl, adminVars>>

\* the campaign is set to 'active' with a new started_at
RouteStartUpdate(r) ==
    /\ r \in 1..Len(requests)
    /\ requests[r].pc = "update"
    /\ LET req == requests[r]
       IN \/ /\ campaigns' = SetCampaignStatusInOrg(campaigns, req.id,
                                                      req.organizationId, "active")
             /\ requests' = [requests EXCEPT ![r] =
                                 Respond(req, 200, "Campaign started successfully")]
          \/ /\ requests' = [requests EXCEPT ![r] =
                                 Respond(req, 500, "Failed to start campaign")]
             /\ UNCHANGED campaigns
    /\ UNCHANGED <<calls, vapiCalls, procs, scanOrder, leadsTable>>
    /\ UNCHANGED <<fmtVars, uploadCtl, adminVars>>

\* POST /:id/pause: one update by id and organization_id
RoutePause(orgs, campaignIds) ==
    /\ \E org \in orgs \ {Null}, id \in campaignIds :
          campaigns' = SetCampaignStatusInOrg(campaigns, id, org, "paused")
    /\ UNCHANGED <<calls, vapiCalls, procs, scanOrder, requests, leadsTable>>
    /\ UNCHANGED <<fmtVars, uploadCtl, adminVars>>

RouteInit ==
    /\ CampInit({{}}, {"asc"})

RouteNext ==
    \/ RouteStart({"orgA", Null}, {"camp1", "camp3"}, MaxRequests)
    \/ RoutePause({"orgA"}, {"camp1"})
    \/ \E r \in 1..MaxRequests : RouteStartSelect(r) \/ RouteStartUpdate(r)

SpecRoute == RouteInit /\ [][RouteNext]_vars

(***************************************************************************)
(* GET, PUT and DELETE /api/campaigns/:id and GET /:id/metrics             *)
(*                                                                         *)
(* A request is a record of requests with the kind of its route; its       *)
(* response carries the ids of the campaigns and the call rows it returns. *)
(* Every call row of the model was created inside the timeframe of a       *)
(* metrics request.                                                        *)
(***************************************************************************)
ApiKinds == {"get", "put", "delete", "metrics"}

\* the status column of 'calls': makeCall writes 'initiated', DELETE looks
\* for 'active', 'completed' is a call that has ended
CallStatuses == {"initiated", "active", "completed"}

FirstPc(kind) ==
    CASE kind = "get" -> "select"
      [] kind = "put" -> "update"
      [] kind = "delete" -> "activeCalls"
      [] kind = "metrics" -> "metrics"

NoApiResponse == [code |-> 0, message |-> "", campaigns |-> {}, calls |-> {}]

NewApiRequest(kind, org, id, status) ==
    [kind |-> kind, organizationId |-> org, id |-> id, body |-> [status |-> status],
     pc |-> FirstPc(kind), response |-> NoApiResponse]

ApiRespond(req, code, message, campaignIds, callRows) ==
    [req EXCEPT !.pc = "done",
                !.response = [code |-> code, message |-> message,
                              campaigns |-> campaignIds, calls |-> callRows]]

\* the rows of .eq('id', id).eq('organization_id', organizationId)
OwnCampaign(table, id, org) ==
    {c \in DOMAIN table : c = id /\ table[c].organization_id = org}

\* a request arrives; without an organization it is answered 401 at once
ApiArrive(kinds, orgs, campaignIds, maxRequests) ==
    /\ Len(requests) < maxRequests
    /\ \E kind \in kinds, org \in orgs, id \in campaignIds, status \in {"paused"} :
          requests' = Append(requests,
                             IF org = Null
                             THEN ApiRespond(NewApiRequest(kind, org, id, status),
                                             401, "Unauthorized", {}, {})
                             ELSE NewApiRequest(kind, org, id, status))
    /\ UNCHANGED <<campaigns, calls, vapiCalls, procs, scanOrder, leadsTable>>
    /\ UNCHANGED <<fmtVars, uploadCtl, adminVars>>

ApiAt(r, kind, pc) ==
    /\ r \in 1..Len(requests)
    /\ requests[r].kind = kind
    /\ requests[r].pc = pc

\* GET /:id: the campaign is read by id and organization_id with .single()
ApiGet(r) ==
    /\ ApiAt(r, "get", "select")
    /\ \E failed \in BOOLEAN :
          LET req == requests[r]
              rows == OwnCampaign(campaigns, req.id, req.organizationId)
          IN requests' = [requests EXCEPT ![r] =
                 IF failed \/ rows = {}
                 THEN ApiRespond(req, 404, "Campaign not found", {}, {})
                 ELSE ApiRespond(req, 200, "", rows, {})]
    /\ UNCHANGED <<campaigns, calls, vapiCalls, procs, scanOrder, leadsTable>>
    /\ UNCHANGED <<fmtVars, uploadCtl, adminVars>>

\* PUT /:id: the update by id and organization_id with .select().single()
ApiPut(r) ==
    /\ ApiAt(r, "put", "update")
    /\ \E failed \in BOOLEAN :
          LET req == requests[r]
              rows == OwnCampaign(campaigns, req.id, req.organizationId)
          IN IF failed
             THEN /\ requests' = [requests EXCEPT ![r] =
                         ApiRespond(req, 500, "Failed to update campaign", {}, {})]
                  /\ UNCHANGED campaigns
             ELSE /\ campaigns' = SetCampaignStatusInOrg(campaigns, req.id,
                                                        req.organizationId, req.body.status)
                  /\ requests' = [requests EXCEPT ![r] =
                         IF rows = {}
                         THEN ApiRespond(req, 500, "Failed to update campaign", {}, {})
                         ELSE ApiRespond(req, 200, "", rows, {})]
    /\ UNCHANGED <<calls, vapiCalls, procs, scanOrder, leadsTable>>
    /\ UNCHANGED <<fmtVars, uploadCtl, adminVars>>

\* .from('calls').select('id').eq('campaign_id', id).eq('status', 'active')
ActiveCalls(table, id) ==
    {c \in table : c.campaign_id = id /\ c.status = "active"}

\* DELETE /:id: the check for active calls; a failed query gives no data and
\* the handler goes on
ApiDeleteCheck(r) ==
    /\ ApiAt(r, "delete", "activeCalls")
    /\ \E failed \in BOOLEAN :
          LET req == requests[r]
          IN requests' = [requests EXCEPT ![r] =
                 IF ~ failed /\ ActiveCalls(calls, req.id) # {}
                 THEN ApiRespond(req, 400,
                         "Cannot delete campaign with active calls. Please stop all calls first.",
                         {}, {})
                 ELSE [req EXCEPT !.pc = "delete"]]
    /\ UNCHANGED <<campaigns, calls, vapiCalls, procs, scanOrder, leadsTable>>
    /\ UNCHANGED <<fmtVars, uploadCtl, adminVars>>

\* DELETE /:id: the delete by id and organization_id
ApiDelete(r) ==
    /\ ApiAt(r, "delete", "delete")
    /\ LET req == requests[r]
           rows == OwnCampaign(campaigns, req.id, req.organizationId)
       IN \/ /\ campaigns' = [c \in DOMAIN campaigns \ rows |-> campaigns[c]]
             /\ requests' = [requests EXCEPT ![r] =
                    ApiRespond(req, 200, "Campaign deleted successfully", {}, {})]
          \/ /\ requests' = [requests EXCEPT ![r] =
                    ApiRespond(req, 500, "Failed to delete campaign", {}, {})]
             /\ UNCHANGED campaigns
    /\ UNCHANGED <<calls, vapiCalls, procs, scanOrder, leadsTable>>
    /\ UNCHANGED <<fmtVars, uploadCtl, adminVars>>

\* GET /:id/metrics: the row of campaign_metrics is read by campaign_id; a
\* campaign in storage has one
ApiMetrics(r) ==
    /\ ApiAt(r, "metrics", "metrics")
    /\ \E failed \in BOOLEAN :
          LET req == requests[r]
              current == IF failed THEN {} ELSE {c \in DOMAIN campaigns : c = req.id}
          IN requests' = [requests EXCEPT ![r].pc = "calls",
                                          ![r].response.campaigns = current]
    /\ UNCHANGED <<campaigns, calls, vapiCalls, procs, scanOrder, leadsTable>>
    /\ UNCHANGED <<fmtVars, uploadCtl, adminVars>>

\* GET /:id/metrics: the calls are read by campaign_id and the answer is
\* { current, historical, timeframe }
ApiMetricsCalls(r) ==
    /\ ApiAt(r, "metrics", "calls")
    /\ \E failed \in BOOLEAN :
          LET req == requests[r]
              historical == IF failed THEN {} ELSE {c \in calls : c.campaign_id = req.id}
          IN requests' = [requests EXCEPT ![r] =
                 ApiRespond(req, 200, "", req.response.campaigns, historical)]
    /\ UNCHANGED <<campaigns, calls, vapiCalls, procs, scanOrder, leadsTable>>
    /\ UNCHANGED <<fmtVars, uploadCtl, adminVars>>

\* a row of 'calls' as makeCall inserts it, in one of the statuses
StoredCall(n, campaignId, status) ==
    [organization_id |-> CampaignOrg[campaignId], campaign_id |-> campaignId,
     lead_id |-> n, vapi_call_id |-> <<1, n>>,
     phone_number |-> <<"+", "4", "4", "1">>, status |-> status]

StoredCalls ==
    { {}, {StoredCall(1, "camp1", "initiated")}, {StoredCall(1, "camp1", "active")},
      {StoredCall(1, "camp1", "completed"), StoredCall(2, "camp3", "initiated")},
      {StoredCall(1, "camp1", "initiated"), StoredCall(2, "camp3", "active")} }

ApiInit ==
    /\ FmtIdle
    /\ UploadIdle
    /\ campaigns = CampaignsInit
    /\ calls \in StoredCalls
    /\ vapiCalls = {}
    /\ procs = <<>>
    /\ requests = <<>>
    /\ scanOrder = "asc"
    /\ AdminIdle

ApiNext ==
    \/ ApiArrive(ApiKinds, {"orgA", Null}, {"camp1", "camp3"}, MaxRequests)
    \/ \E r \in 1..MaxRequests :
          \/ ApiGet(r)
          \/ ApiPut(r)
          \/ ApiDeleteCheck(r)
          \/ ApiDelete(r)
          \/ ApiMetrics(r)
          \/ ApiMetricsCalls(r)

SpecApi == ApiInit /\ [][ApiNext]_vars

(***************************************************************************)
(* POST /api/organization-setup/setup                                      *)
(*                                                                         *)
(* An organization row is [id, vapi_tested]; the id storage gives to the   *)
(* organization of request r is r.  A user row is [organization_id, role,  *)
(* email].  A delete or insert whose result the handler discards is        *)
(* applied.                                                                *)
(***************************************************************************)
MaxTeamMembers == 1

\* setupData: are the required fields present, how many team members are to
\* be added, are both VAPI keys given
SetupData ==
    [valid : BOOLEAN, teamMembers : 0..MaxTeamMembers, vapiKeys : BOOLEAN]

NewSetupRequest(data) ==
    [kind |-> "setup", data |-> data, pc |-> "insertOrg", organizationId |-> 0,
     member |-> 0, teamMembersCreated |-> 0, response |-> NoResponse]

\* the handler is called: a request without the required fields is answered 400
SetupArrive(maxRequests) ==
    /\ Len(requests) < maxRequests
    /\ \E data \in SetupData :
          requests' = Append(requests,
                             IF ~ data.valid
                             THEN Respond(NewSetupRequest(data), 400, "Missing required fields")
                             ELSE NewSetupRequest(data))
    /\ UNCHANGED <<campaigns, calls, vapiCalls, procs, scanOrder, leadsTable>>
    /\ UNCHANGED <<fmtVars, uploadCtl, adminVars>>

SetupAt(r, pc) ==
    /\ r \in 1..Len(requests)
    /\ requests[r].kind = "setup"
    /\ requests[r].pc = pc

\* 1. the organization is inserted; orgError is answered 500
SetupInsertOrg(r) ==
    /\ SetupAt(r, "insertOrg")
    /\ \/ /\ organizations' = organizations \cup {[id |-> r, vapi_tested |-> FALSE]}
          /\ requests' = [requests EXCEPT ![r].pc = "insertAdmin", ![r].organizationId = r]
       \/ /\ requests' = [requests EXCEPT ![r] =
                             Respond(requests[r], 500, "Failed to create organization")]
          /\ UNCHANGED organizations
    /\ UNCHANGED <<users, scheduledFollowups, notifications>>
    /\ UNCHANGED <<campaigns, calls, vapiCalls, procs, scanOrder, leadsTable>>
    /\ UNCHANGED <<fmtVars, uploadCtl>>

\* the 201 answer of step 5
SetupCreated(req) == Respond(req, 201, "created successfully")

\* what follows the team members: step 4 when both VAPI keys are given
AfterTeam(req) ==
    IF req.data.vapiKeys THEN [req EXCEPT !.pc = "vapiTest"] ELSE SetupCreated(req)

\* what follows the admin user: step 3 when team members are to be added
AfterAdmin(req) ==
    IF req.data.teamMembers > 0 THEN [req EXCEPT !.pc = "team", !.member = 1]
    ELSE AfterTeam(req)

\* the loop over the team members goes on or ends
NextMember(req) ==
    IF req.member < req.data.teamMembers THEN [req EXCEPT !.member = req.member + 1]
    ELSE AfterTeam(req)

\* 2. the admin user is inserted with role 'client_admin'; on userError the
\* handler goes to the cleanup
SetupInsertAdmin(r) ==
    /\ SetupAt(r, "insertAdmin")
    /\ LET req == requests[r]
       IN \/ /\ users' = users \cup {[organization_id |-> req.organizationId,
                                       role |-> "client_admin", email |-> <<r, 0>>]}
             /\ requests' = [requests EXCEPT ![r] = AfterAdmin(req)]
          \/ /\ requests' = [requests EXCEPT ![r].pc = "cleanup"]
             /\ UNCHANGED users
    /\ UNCHANGED <<organizations, scheduledFollowups, notifications>>
    /\ UNCHANGED <<campaigns, calls, vapiCalls, procs, scanOrder, leadsTable>>
    /\ UNCHANGED <<fmtVars, uploadCtl>>

\* mutant: the 500 answer without the cleanup
SetupCleanup_NoDelete(r) ==
    /\ SetupAt(r, "cleanup")
    /\ requests' = [requests EXCEPT ![r] =
                       Respond(requests[r], 500, "Failed to create admin user")]
    /\ UNCHANGED <<organizations, users, scheduledFollowups, notifications>>
    /\ UNCHANGED <<campaigns, calls, vapiCalls, procs, scanOrder, leadsTable>>
    /\ UNCHANGED <<fmtVars, uploadCtl>>

\* the cleanup: the organization is deleted by id and the answer is 500
SetupCleanup(r) ==
    /\ SetupAt(r, "cleanup")
    /\ organizations' = {o \in organizations : o.id # requests[r].organizationId}
    /\ requests' = [requests EXCEPT ![r] =
                       Respond(requests[r], 500, "Failed to create admin user")]
    /\ UNCHANGED <<users, scheduledFollowups, notifications>>
    /\ UNCHANGED <<campaigns, calls, vapiCalls, procs, scanOrder, leadsTable>>
    /\ UNCHANGED <<fmtVars, uploadCtl>>

\* 3. the next team member is inserted; a memberError is logged and the loop
\* goes on
SetupTeamMember(r) ==
    /\ SetupAt(r, "team")
    /\ LET req == requests[r]
       IN \/ /\ users' = users \cup {[organization_id |-> req.organizationId,
                                       role |-> "client_agent",
                                       email |-> <<r, req.member>>]}
             /\ requests' = [requests EXCEPT ![r] =
                    NextMember([req EXCEPT !.teamMembersCreated = req.teamMembersCreated + 1])]
          \/ /\ requests' = [requests EXCEPT ![r] = NextMember(req)]
             /\ UNCHANGED users
    /\ UNCHANGED <<organizations, scheduledFollowups, notifications>>
    /\ UNCHANGED <<campaigns, calls, vapiCalls, procs, scanOrder, leadsTable>>
    /\ UNCHANGED <<fmtVars, uploadCtl>>

\* 4. testVapiIntegration: connected, not connected or raising
SetupVapiTest(r) ==
    /\ SetupAt(r, "vapiTest")
    /\ \E connected \in BOOLEAN :
          requests' = [requests EXCEPT ![r] =
                          IF connected THEN [requests[r] EXCEPT !.pc = "vapiStore"]
                          ELSE SetupCreated(requests[r])]
    /\ UNCHANGED <<campaigns, calls, vapiCalls, procs, scanOrder, leadsTable>>
    /\ UNCHANGED <<fmtVars, uploadCtl, adminVars>>

\* the test results are stored in the organization's row, or on updateError
\* in organization_settings; then the 201 answer
SetupVapiStore(r) ==
    /\ SetupAt(r, "vapiStore")
    /\ \E updateError \in BOOLEAN :
          organizations' =
              IF updateError THEN organizations
              ELSE {IF o.id = requests[r].organizationId
                    THEN [o EXCEPT !.vapi_tested = TRUE] ELSE o : o \in organizations}
    /\ requests' = [requests EXCEPT ![r] = SetupCreated(requests[r])]
    /\ UNCHANGED <<users, scheduledFollowups, notifications>>
    /\ UNCHANGED <<campaigns, calls, vapiCalls, procs, scanOrder, leadsTable>>
    /\ UNCHANGED <<fmtVars, uploadCtl>>

SetupInit == FmtIdle /\ UploadIdle /\ CampIdle

SetupNext ==
    \/ SetupArrive(MaxRequests)
    \/ \E r \in 1..MaxRequests :
          \/ SetupInsertOrg(r)
          \/ SetupInsertAdmin(r)
          \/ SetupCleanup(r)
          \/ SetupTeamMember(r)
          \/ SetupVapiTest(r)
          \/ SetupVapiStore(r)

SpecSetup == SetupInit /\ [][SetupNext]_vars

(***************************************************************************)
(* POST /api/notifications/schedule-reminders                              *)
(*                                                                         *)
(* A row of scheduled_followups is [assigned_to, slack_id, upcoming,       *)
(* reminder_sent, completed]: upcoming says that scheduled_time lies in    *)
(* the next hour.  A run is a request; it keeps the rows its query         *)
(* returned and the index of the row it is at.                             *)
(***************************************************************************)
Followup(assignedTo, slackId, upcoming, sent, completed) ==
    [assigned_to |-> assignedTo, slack_id |-> slackId, upcoming |-> upcoming,
     reminder_sent |-> sent, completed |-> completed]

NewRemindersRun ==
    [kind |-> "reminders", pc |-> "select", followups |-> <<>>, idx |-> 0,
     reminders_sent |-> 0, response |-> NoResponse]

\* the cron job, or a user, calls the route
RemindersArrive(maxRequests) ==
    /\ Len(requests) < maxRequests
    /\ requests' = Append(requests, NewRemindersRun)
    /\ UNCHANGED <<campaigns, calls, vapiCalls, procs, scanOrder, leadsTable>>
    /\ UNCHANGED <<fmtVars, uploadCtl, adminVars>>

RemindersAt(r, pc) ==
    /\ r \in 1..Len(requests)
    /\ requests[r].kind = "reminders"
    /\ requests[r].pc = pc

\* the rows of the query: scheduled in the next hour, reminder_sent false,
\* completed false
RECURSIVE DueFollowups(_, _)
DueFollowups(table, i) ==
    IF i > Len(table) THEN <<>>
    ELSE IF table[i].upcoming /\ ~ table[i].reminder_sent /\ ~ table[i].completed
         THEN <<[id |-> i, assigned_to |-> table[i].assigned_to,
                 slack_id |-> table[i].slack_id]>> \o DueFollowups(table, i + 1)
         ELSE DueFollowups(table, i + 1)

\* the for loop goes to the next follow-up that has assigned_to, or ends and
\* the answer is { success: true, reminders_sent: followups.length }
RECURSIVE NextFollowup(_)
NextFollowup(req) ==
    IF req.idx >= Len(req.followups)
    THEN [Respond(req, 200, "") EXCEPT !.reminders_sent = Len(req.followups)]
    ELSE IF req.followups[req.idx + 1].assigned_to # Null
         THEN [req EXCEPT !.idx = req.idx + 1, !.pc = "insert"]
         ELSE NextFollowup([req EXCEPT !.idx = req.idx + 1])

RemindersFailed(req) == Respond(req, 500, "Failed to schedule reminders")

\* the query for the follow-ups; an error is thrown to the catch
RemindersSelect(r) ==
    /\ RemindersAt(r, "select")
    /\ \/ requests' = [requests EXCEPT ![r] =
              NextFollowup([requests[r] EXCEPT
                               !.followups = DueFollowups(scheduledFollowups, 1)])]
       \/ requests' = [requests EXCEPT ![r] = RemindersFailed(requests[r])]
    /\ UNCHANGED <<campaigns, calls, vapiCalls, procs, scanOrder, leadsTable>>
    /\ UNCHANGED <<fmtVars, uploadCtl, adminVars>>

\* the notification of type 'follow_up_reminder' is inserted
RemindersInsert(r) ==
    /\ RemindersAt(r, "insert")
    /\ LET req == requests[r]
           followup == req.followups[req.idx]
       IN notifications' = notifications \cup
              {[id |-> <<r, req.idx>>, user_id |-> followup.assigned_to,
                type |-> "follow_up_reminder", followup_id |-> followup.id]}
    /\ requests' = [requests EXCEPT ![r].pc = "mark"]
    /\ UNCHANGED <<organizations, users, scheduledFollowups>>
    /\ UNCHANGED <<campaigns, calls, vapiCalls, procs, scanOrder, leadsTable>>
    /\ UNCHANGED <<fmtVars, uploadCtl>>

\* the follow-up is marked reminder_sent
RemindersMark(r) ==
    /\ RemindersAt(r, "mark")
    /\ LET req == requests[r]
           followup == req.followups[req.idx]
       IN /\ scheduledFollowups' =
                 [scheduledFollowups EXCEPT ![followup.id].reminder_sent = TRUE]
          /\ requests' = [requests EXCEPT ![r] =
                 IF followup.slack_id # Null THEN [req EXCEPT !.pc = "slack"]
                 ELSE NextFollowup(req)]
    /\ UNCHANGED <<organizations, users, notifications>>
    /\ UNCHANGED <<campaigns, calls, vapiCalls, procs, scanOrder, leadsTable>>
    /\ UNCHANGED <<fmtVars, uploadCtl>>

\* slackService.sendDirectMessage returns, or raises to the catch
RemindersSlack(r) ==
    /\ RemindersAt(r, "slack")
    /\ \/ requests' = [requests EXCEPT ![r] = NextFollowup(requests[r])]
       \/ requests' = [requests EXCEPT ![r] = RemindersFailed(requests[r])]
    /\ UNCHANGED <<campaigns, calls, vapiCalls, procs, scanOrder, leadsTable>>
    /\ UNCHANGED <<fmtVars, uploadCtl, adminVars>>

FollowupTables ==
    { <<Followup("u1", "s1", TRUE, FALSE, FALSE)>>,
      <<Followup("u1", Null, TRUE, FALSE, FALSE), Followup(Null, Null, TRUE, FALSE, FALSE)>>,
      <<Followup(Null, Null, TRUE, FALSE, FALSE), Followup("u2", "s2", TRUE, FALSE, FALSE)>>,
      <<Followup("u1", Null, TRUE, TRUE, FALSE), Followup("u2", Null, FALSE, FALSE, FALSE)>>,
      <<Followup("u1", Null, TRUE, FALSE, TRUE), Followup("u1", Null, TRUE, FALSE, FALSE)>> }

RemindersInit ==
    /\ FmtIdle
    /\ UploadIdle
    /\ campaigns = <<>>
    /\ calls = {}
    /\ vapiCalls = {}
    /\ procs = <<>>
    /\ scanOrder = "asc"
    /\ requests = <<>>
    /\ organizations = {}
    /\ users = {}
    /\ scheduledFollowups \in FollowupTables
    /\ notifications = {}

RemindersNext ==
    \/ RemindersArrive(MaxRequests)
    \/ \E r \in 1..MaxRequests :
          \/ RemindersSelect(r)
          \/ RemindersInsert(r)
          \/ RemindersMark(r)
          \/ RemindersSlack(r)

SpecReminders == RemindersInit /\ [][RemindersNext]_vars

(***************************************************************************)
(* Properties of formatPhoneNumber (checked under SpecFmt)                 *)
(***************************************************************************)
\* the digit-only form of a string, computed character by character
RECURSIVE DigitsOnly(_)
DigitsOnly(s) ==
    IF s = <<>> THEN <<>>
    ELSE IF Head(s) \in Digit THEN <<Head(s)>> \o DigitsOnly(Tail(s))
    ELSE DigitsOnly(Tail(s))

\* '+' followed by one or more digits, the first of which is not 0
E164Shape(s) ==
    /\ Len(s) >= 2
    /\ s[1] = "+"
    /\ \A i \in 2..Len(s) : s[i] \in Digit
    /\ s[2] # "0"

\* a country code the specification recognises at the front of d
CarriesCountryCode(d) ==
    \/ startsWith(d, <<"1">>) /\ Len(d) = 11
    \/ startsWith(d, <<"4", "4">>)
    \/ startsWith(d, <<"3", "5", "6">>) /\ Len(d) = 11
    \/ startsWith(d, <<"3", "9">>)
    \/ startsWith(d, <<"3", "3">>)
    \/ startsWith(d, <<"4", "9">>)

C2_MaltaMobile ==
    (/\ fmtPc # "input"
     /\ Len(DigitsOnly(fmtIn)) = 8
     /\ DigitsOnly(fmtIn)[1] \in {"9", "7"})
        => fmtOut = <<"+", "3", "5", "6">> \o DigitsOnly(fmtIn)

C2_Witness ==
    /\ fmtPc = "formatted"
    /\ Len(DigitsOnly(fmtIn)) = 8
    /\ DigitsOnly(fmtIn)[1] = "7"
    /\ fmtOut = <<"+", "3", "5", "6">> \o DigitsOnly(fmtIn)

\* C3: an input with exactly 10 digits and no recognised country code
\* defaults to UK: the result is '+44' followed by the ten digits.
C3_TenDigitsDefaultUK ==
    (/\ fmtPc # "input"
     /\ Len(DigitsOnly(fmtIn)) = 10
     /\ ~ CarriesCountryCode(DigitsOnly(fmtIn)))
        => fmtOut = <<"+", "4", "4">> \o DigitsOnly(fmtIn)

\* C4: an input with 11 digits starting with 0 is UK national format: the
\* result is '+44' followed by the ten digits after the leading 0.
C4_UKNationalStripsZero ==
    (/\ fmtPc # "input"
     /\ Len(DigitsOnly(fmtIn)) = 11
     /\ DigitsOnly(fmtIn)[1] = "0")
        => fmtOut = <<"+", "4", "4">> \o Tail(DigitsOnly(fmtIn))

\* C5: for every non-empty input the result is E.164-shaped ('+', then one
\* or more digits, the first not 0), and so is the number makeCall sends.
C5_AlwaysE164 ==
    /\ (fmtPc # "input" /\ fmtIn # <<>>) => E164Shape(fmtOut)
    /\ fmtPc = "dialled" => E164Shape(vapiNumber)

(***************************************************************************)
(* Properties of uploadLeadsFromCSV                                        *)
(***************************************************************************)
\* the order in which the phone columns are consulted
PhoneColumnOrder == <<"phone", "number", "telephone", "phoneNumber", "Phone", "Number">>

HasValue(v) == v # Undef /\ v # <<>>

\* the value of the first column of cols that has a value, or Undef
FirstValue(row, cols) ==
    LET filled == {i \in 1..Len(cols) : HasValue(row[cols[i]])} IN
    IF filled = {} THEN Undef
    ELSE row[cols[CHOOSE i \in filled : \A j \in filled : i <= j]]

RowPhone(row) == FirstValue(row, PhoneColumnOrder)
RowFirstName(row) == FirstValue(row, <<"firstName", "first_name", "FirstName", "firstname">>)
RowLastName(row) == FirstValue(row, <<"lastName", "last_name", "LastName", "lastname">>)
RowName(row) == FirstValue(row, <<"name", "Name">>)

\* s without spaces, hyphens and parentheses
RECURSIVE WithoutSeparators(_)
WithoutSeparators(s) ==
    IF s = <<>> THEN <<>>
    ELSE IF Head(s) \in {" ", "-", "(", ")"} THEN WithoutSeparators(Tail(s))
    ELSE <<Head(s)>> \o WithoutSeparators(Tail(s))

\* an optional '+', a digit 1-9, then 1 to 14 further digits
LooseE164(s) ==
    LET t == IF s # <<>> /\ s[1] = "+" THEN Tail(s) ELSE s IN
    /\ Len(t) \in 2..15
    /\ t[1] \in {"1", "2", "3", "4", "5", "6", "7", "8", "9"}
    /\ \A i \in 1..Len(t) : t[i] \in Digit

PhoneAcceptable(row) ==
    HasValue(RowPhone(row)) /\ LooseE164(WithoutSeparators(RowPhone(row)))

\* s without leading and trailing spaces
RECURSIVE Stripped(_)
Stripped(s) ==
    IF s = <<>> THEN s
    ELSE IF Head(s) = " " THEN Stripped(Tail(s))
    ELSE IF s[Len(s)] = " " THEN Stripped(SubSeq(s, 1, Len(s) - 1))
    ELSE s

SpacePositions(s) == {i \in 1..Len(s) : s[i] = " "}
FirstSpace(s) == CHOOSE i \in SpacePositions(s) : \A j \in SpacePositions(s) : i <= j
BeforeFirstSpace(s) == IF SpacePositions(s) = {} THEN s ELSE SubSeq(s, 1, FirstSpace(s) - 1)
AfterFirstSpace(s) == IF SpacePositions(s) = {} THEN <<>> ELSE SubSeq(s, FirstSpace(s) + 1, Len(s))

\* the stored form of a column value: stripped, empty when there is no value
Stored(v) == IF HasValue(v) THEN Stripped(v) ELSE <<>>

\* the row has a first name: from its column, or from the split of the name
RowHasFirstName(row) ==
    \/ HasValue(RowFirstName(row))
    \/ /\ ~ HasValue(RowLastName(row))
       /\ HasValue(RowName(row))
       /\ BeforeFirstSpace(Stripped(RowName(row))) # <<>>

\* the single row of the upload has been handled
RowHandled == Len(csvRows) = 1
TheRow == csvRows[1]
RowAccepted == Len(leads) = 1 /\ errors = <<>>
RowRejectedWith(text) == leads = <<>> /\ errors = <<ErrorLine(1, text)>>

\* C6 (as stated): a row is accepted only if its phone, without spaces,
\* hyphens and parentheses, is an optional '+', a digit 1-9 and 1 to 14
\* further digits; any other row is rejected with 'Line N: Invalid phone
\* number format' and is never upserted.
C6_AnyOtherRowInvalidPhone ==
    RowHandled =>
        /\ RowAccepted => PhoneAcceptable(TheRow)
        /\ (HasValue(RowPhone(TheRow)) /\ ~ PhoneAcceptable(TheRow)) =>
              (RowRejectedWith(InvalidPhone) /\ leadsTable = {})

\* C6 (amended): a row is accepted only if its phone has that form; a row
\* that has a first name and a phone value of any other form is rejected with
\* 'Line N: Invalid phone number format'; no row whose phone has another form
\* is ever upserted.
C6_InvalidPhoneRejected ==
    RowHandled =>
        /\ RowAccepted => PhoneAcceptable(TheRow)
        /\ (/\ RowHasFirstName(TheRow)
            /\ HasValue(RowPhone(TheRow))
            /\ ~ PhoneAcceptable(TheRow)) => RowRejectedWith(InvalidPhone)
        /\ ~ PhoneAcceptable(TheRow) => (leads = <<>> /\ Len(errors) = 1 /\ leadsTable = {})

C6_Witness ==
    /\ upPc = "resolved"
    /\ RowHasFirstName(TheRow)
    /\ RowPhone(TheRow) = <<"0", "1", "1", "1">>
    /\ RowRejectedWith(InvalidPhone)
    /\ leadsTable = {}

\* C9: the phone of a row is the value of the first non-empty column among
\* phone, number, telephone, phoneNumber, Phone, Number; a row in which none
\* has a value is rejected with 'Line N: Missing required fields (name and
\* phone)' and is not stored.
C9_PhoneColumnOrder ==
    RowHandled =>
        /\ RowAccepted =>
              leads[1].phone = formatPhoneNumber(WithoutSeparators(RowPhone(TheRow)))
        /\ (RowHasFirstName(TheRow) /\ HasValue(RowPhone(TheRow))) =>
              (RowRejectedWith(InvalidPhone) <=> ~ PhoneAcceptable(TheRow))
        /\ ~ HasValue(RowPhone(TheRow)) =>
              (RowRejectedWith(MissingFields) /\ leadsTable = {})
        /\ upPc = "resolved" =>
              \A l \in leadsTable :
                  l.phone = formatPhoneNumber(WithoutSeparators(RowPhone(TheRow)))

C9_Witness ==
    /\ upPc = "resolved"
    /\ TheRow["phone"] = <<>>
    /\ TheRow["number"] = Undef
    /\ TheRow["telephone"] = <<"1", "3">>
    /\ TheRow["Number"] = <<"1", "6">>
    /\ \E l \in leadsTable : l.phone = <<"+", "1", "3">>

C9_WitnessMissing ==
    /\ upPc = "resolved"
    /\ \A c \in Range(PhoneColumns) : TheRow[c] \in {Undef, <<>>}
    /\ TheRow["name"] = <<"a">>
    /\ RowRejectedWith(MissingFields)

\* the row has no first-name and no last-name value, but a name value
NameOnly(row) ==
    ~ HasValue(RowFirstName(row)) /\ ~ HasValue(RowLastName(row)) /\ HasValue(RowName(row))

\* C10 (as stated): with no first-name and no last-name value, the name is
\* split on its first space: the first name is the text before the first
\* space, the last name everything after it; with a first-name or last-name
\* value the name column is not used.
C10_NameSplitOnFirstSpace ==
    (RowHandled /\ PhoneAcceptable(TheRow)) =>
        /\ (NameOnly(TheRow) /\ RowAccepted) =>
              /\ leads[1].firstName = BeforeFirstSpace(RowName(TheRow))
              /\ leads[1].lastName = AfterFirstSpace(RowName(TheRow))
        /\ (~ NameOnly(TheRow) /\ RowAccepted) =>
              /\ leads[1].firstName = Stored(RowFirstName(TheRow))
              /\ leads[1].lastName = Stored(RowLastName(TheRow))

\* C10 (amended): with no first-name and no last-name value, the name
\* stripped of surrounding spaces is split on its first space: the first name
\* is the text before that space, the last name everything after it stripped
\* of surrounding spaces (empty when there is no space), and the row is
\* accepted when that first name is not empty; with a first-name or
\* last-name value the name column is not used.
C10_TrimmedNameSplit ==
    (RowHandled /\ PhoneAcceptable(TheRow)) =>
        /\ NameOnly(TheRow) =>
              IF BeforeFirstSpace(Stripped(RowName(TheRow))) = <<>>
              THEN RowRejectedWith(MissingFields)
              ELSE /\ RowAccepted
                   /\ leads[1].firstName = BeforeFirstSpace(Stripped(RowName(TheRow)))
                   /\ leads[1].lastName =
                          Stripped(AfterFirstSpace(Stripped(RowName(TheRow))))
        /\ (~ NameOnly(TheRow) /\ RowAccepted) =>
              /\ leads[1].firstName = Stored(RowFirstName(TheRow))
              /\ leads[1].lastName = Stored(RowLastName(TheRow))

C10_Witness ==
    /\ upPc = "resolved"
    /\ RowName(TheRow) = <<"a", "b", " ", "c", " ", " ", "d">>
    /\ NameOnly(TheRow)
    /\ \E l \in leadsTable :
          l.first_name = <<"a", "b">> /\ l.last_name = <<"c", " ", " ", "d">>

\* a row that passes the validation of the handler: it has a first name and
\* a phone value of the accepted form
ValidRow(row) == RowHasFirstName(row) /\ PhoneAcceptable(row)

\* C7: a row that fails validation adds exactly one message and does not
\* stop the batch: every valid row of the CSV is upserted, and 'failed' is
\* the number of rejected rows, the length of errors.
C7_ValidRowsUpserted ==
    upPc = "resolved" =>
        /\ upResult.failed = Len(errors)
        /\ Len(errors) + Len(leads) = Len(csvRows)
        /\ \A i \in 1..Len(csvRows) :
              IF ValidRow(csvRows[i])
              THEN \E l \in leadsTable :
                      /\ l.organization_id = upOrg
                      /\ l.campaign_id = upCampaign
                      /\ l.phone = formatPhoneNumber(WithoutSeparators(RowPhone(csvRows[i])))
              ELSE \E k \in 1..Len(errors) : errors[k].line = i

\* C8: storage holds at most one lead per (organization, normalized phone).
C8_OneLeadPerOrgAndPhone ==
    \A l1, l2 \in leadsTable :
        (/\ l1.organization_id = l2.organization_id
         /\ formatPhoneNumber(l1.phone) = formatPhoneNumber(l2.phone)) => l1 = l2

\* the second upload wrote, with separators, the number of the lead the first
\* upload had stored: that lead was updated (same id), none was added
C8_Witness ==
    /\ upPc = "resolved"
    /\ uploadsDone = 2
    /\ csvRows = <<Row([name |-> <<"a", " ", "b">>, phone |-> <<"+", "1", "-", "2">>])>>
    /\ upCampaign = "camp2"
    /\ nextLeadId = 2
    /\ leadsTable = {[id |-> 1, organization_id |-> upOrg, campaign_id |-> upCampaign,
                      first_name |-> <<"a">>, last_name |-> <<"b">>,
                      phone |-> <<"+", "1", "2">>, call_status |-> "pending"]}

(***************************************************************************)
(* Properties of processCampaignCalls and makeCall                         *)
(***************************************************************************)
Invocations == 1..Len(procs)

NoRepeat(s) == \A i, j \in 1..Len(s) : s[i] = s[j] => i = j

InMakeCall(pr) == pr.pc \in {"createCall", "insertCall", "markCalling", "markFailed"}

\* C11: a run attempts at most 5 leads, each of them a lead of the run's
\* campaign that was 'pending' in storage when the run fetched it, and each
\* at most once; a lead whose attempt failed is not attempted again.
C11_AttemptsOfARun ==
    [][\A p \in Invocations :
          /\ (procs[p].pc = "fetchLeads" /\ procs'[p].pc = "fetchConfig") =>
                /\ Len(procs'[p].runLeads) \in 1..5
                /\ \A i \in 1..Len(procs'[p].runLeads) :
                      /\ procs'[p].runLeads[i] \in leadsTable
                      /\ procs'[p].runLeads[i].campaign_id = procs[p].campaign
                      /\ procs'[p].runLeads[i].call_status = "pending"
          /\ Len(procs'[p].attempts) <= 5
          /\ NoRepeat(procs'[p].attempts)
          /\ Range(procs'[p].attempts) \subseteq Ids(procs'[p].runLeads)]_vars

\* a run has ended after 5 attempts, one of them failed, and a sixth pending
\* lead of the campaign was left alone
C11_Witness ==
    \E p \in Invocations :
        /\ procs[p].pc = "done"
        /\ Len(procs[p].attempts) = 5
        /\ \E i \in 1..5 : procs[p].outcomes[i] = "raised"
        /\ \E l \in leadsTable : /\ l.campaign_id = procs[p].campaign
                                 /\ l.call_status = "pending"
                                 /\ l.id \notin Range(procs[p].attempts)

\* C12: inside a run the attempts are sequential and a delay of 2 seconds
\* lies between every two consecutive attempts: when the attempt for lead
\* number k is under way, the k-1 earlier attempts have ended and k-1 delays
\* of 2000 ms have elapsed, whether those attempts returned or raised.
C12_DelayBetweenAttempts ==
    \A p \in Invocations :
        InMakeCall(procs[p]) =>
            /\ Len(procs[p].outcomes) = procs[p].idx - 1
            /\ procs[p].waited = (procs[p].idx - 1) * 2000

\* C13: two overlapping invocations for one campaign are not made idempotent:
\* every attempt of every run that got its call recorded has a call record
\* of its own, so the call records of a lead are as many as the attempts
\* made for it, by whatever run.
Recorded(p, i) ==
    \/ i <= Len(procs[p].outcomes) /\ procs[p].outcomes[i] = "returned"
    \/ i = procs[p].idx /\ procs[p].pc = "markCalling"

RecordedAttempts(leadId) ==
    {<<p, i>> \in Invocations \X (1..5) :
        /\ i <= Len(procs[p].runLeads)
        /\ procs[p].runLeads[i].id = leadId
        /\ Recorded(p, i)}

C13_StartsNotIdempotent ==
    \A l \in leadsTable :
        Cardinality({c \in calls : c.lead_id = l.id}) = Cardinality(RecordedAttempts(l.id))

\* two runs have fetched the same lead, the API has accepted a call from
\* each and the lead has two call records
C13_Witness ==
    \E p, q \in Invocations : \E l \in leadsTable :
        /\ p # q
        /\ procs[p].campaign = procs[q].campaign
        /\ l.id \in Ids(procs[p].runLeads) \cap Ids(procs[q].runLeads)
        /\ Cardinality({c \in calls : c.lead_id = l.id}) = 2
        /\ Cardinality({v \in vapiCalls : v.number = EnsurePlusPrefix(formatPhoneNumber(l.phone))}) = 2

\* C14: pauseCampaign does not cancel a run: it changes the status of the
\* campaign and nothing of a run, and a run whose campaign is paused goes on
\* from each lead of its batch to the next one; the calls are placed while
\* the campaign is paused.
InRun(pr) == pr.pc \in {"fetchConfig", "createCall", "insertCall", "markCalling",
                        "delay", "markFailed"}

Paused(campaignId) ==
    campaignId \in DOMAIN campaigns /\ campaigns[campaignId].status = "paused"

C14_NoCancellation ==
    [][\A p \in Invocations :
          /\ (campaigns' # campaigns /\ Paused(procs[p].campaign)') => procs' = procs
          /\ ( /\ Paused(procs[p].campaign)
               /\ procs[p].pc \in {"delay", "markFailed"}
               /\ procs[p].idx < Len(procs[p].runLeads)
               /\ procs'[p] # procs[p] ) =>
                  /\ procs'[p].pc = "createCall"
                  /\ procs'[p].idx = procs[p].idx + 1]_vars

\* the second lead of a batch was called when the campaign was paused
C14_Witness ==
    \E p \in Invocations :
        /\ Paused(procs[p].campaign)
        /\ Len(procs[p].runLeads) >= 2
        /\ procs[p].idx >= 2
        /\ \E v \in vapiCalls : v.id = <<p, 2>> /\ v.campaign_status = "paused"

\* C15: a failure of a call does not end the run and nothing raises to the
\* caller: a run that has ended after it got its batch and its campaign has
\* attempted every lead of the batch, and the invocation that started a run
\* has resolved and stays resolved.
RunStarted(pr) == InRun(pr) \/ pr.pc \in {"fetchLeads", "done"}

C15_FailuresSwallowed ==
    [][\A p \in Invocations :
          /\ (procs'[p].pc = "done" /\ procs'[p].idx >= 1) =>
                /\ Len(procs'[p].outcomes) = Len(procs'[p].runLeads)
                /\ Len(procs'[p].attempts) = Len(procs'[p].runLeads)
          /\ RunStarted(procs[p]) => (RunStarted(procs'[p]) /\ procs'[p].result = "resolved")]_vars

\* every call of a batch of two has failed, and the invocation has resolved
C15_Witness ==
    \E p \in Invocations :
        /\ procs[p].pc = "done"
        /\ procs[p].result = "resolved"
        /\ Len(procs[p].runLeads) = 2
        /\ procs[p].outcomes = <<"raised", "raised">>

\* C16: makeCall records every attempt: the insert adds one call record,
\* with status 'initiated', for the lead and the campaign of the attempt,
\* and nothing else adds or removes one; when makeCall returns the lead is
\* 'calling'; a step that fails leads to the catch, where the lead is set
\* to 'failed' and the error is raised to the loop.
LeadStatus(table, leadId) == {l.call_status : l \in {m \in table : m.id = leadId}}

LeadById(table, leadId) == CHOOSE l \in table : l.id = leadId

SameIds(table1, table2) == {l.id : l \in table1} = {l.id : l \in table2}

Starting(pr) == pr.kind = "start" /\ ~ RunStarted(pr) /\ pr.pc # "raised"

\* C17: the reset of startCampaign happens only when the campaign has no
\* pending lead; it sets to 'pending' the leads of the campaign that are
\* failed, no_answer or busy and changes no other lead; it happens exactly
\* when the campaign has such a lead; a startCampaign that found a pending
\* lead changes no lead at all.
C17_ResetOnlyFailedLeads ==
    [][\A p \in Invocations :
          LET campaignId == procs[p].campaign
              resetable(l) == /\ l.campaign_id = campaignId
                              /\ l.call_status \in {"failed", "no_answer", "busy"}
          IN /\ (procs[p].pc = "reset" /\ procs'[p].pc = "refetch") =>
                   /\ PendingLeads(leadsTable, campaignId) = {}
                   /\ SameIds(leadsTable, leadsTable')
                   /\ \A l \in leadsTable :
                         LeadById(leadsTable', l.id) =
                             IF resetable(l) THEN [l EXCEPT !.call_status = "pending"]
                                             ELSE l
             /\ (procs[p].pc = "getAll" /\ procs'[p].pc \notin {"getAll", "raised"}) =>
                   (procs'[p].pc = "reset" <=> \E l \in leadsTable : resetable(l))
             /\ (procs[p].pc = "getPending" /\ procs'[p].pc \notin {"getPending", "raised"}) =>
                   (procs'[p].leads # <<>> <=> PendingLeads(leadsTable, campaignId) # {})
             /\ (Starting(procs[p]) /\ procs[p].leads # <<>>) =>
                   /\ leadsTable' = leadsTable
                   /\ procs'[p].pc \in {"activate", "fetchLeads"}]_vars

\* a failed lead of the campaign is pending after the reset, a completed lead
\* of the campaign and a failed lead of another campaign are as they were
C17_Witness ==
    \E p \in Invocations :
        /\ procs[p].pc = "refetch"
        /\ procs[p].campaign = "camp1"
        /\ leadsTable = {Lead(1, "orgA", "camp1", "pending"),
                         Lead(2, "orgA", "camp1", "completed"),
                         Lead(3, "orgA", "camp2", "failed")}
        /\ LeadById(Range(procs[p].allCampaignLeads), 1).call_status = "failed"

\* C18: the fallbacks of startCampaign come in order.  Leads are attached
\* only when the campaign had no pending lead: they are at most 10, they were
\* pending leads of the organization without a campaign, and only their
\* campaign changes.  Leads are reassigned only when also no pending lead
\* without a campaign was found in the organization: they are at most 5,
\* they were leads of the organization with a campaign, and they get the
\* campaign and the status 'pending'.  No other lead changes.
UnassignedPending(table, org) ==
    {l \in table : l.organization_id = org /\ l.campaign_id = Null
                                           /\ l.call_status = "pending"}

Changed(table1, table2) == {l.id : l \in table1 \ table2}

C18_OrderedFallbacks ==
    [][\A p \in Invocations :
          LET pr == procs[p]
          IN /\ (pr.pc = "assign" /\ procs'[p].pc = "activate") =>
                   /\ pr.leads = <<>>
                   /\ SameIds(leadsTable, leadsTable')
                   /\ Cardinality(Changed(leadsTable, leadsTable')) \in 1..10
                   /\ \A l \in leadsTable :
                         IF l.id \in Changed(leadsTable, leadsTable')
                         THEN /\ l \in UnassignedPending(leadsTable, pr.organization_id)
                              /\ LeadById(leadsTable', l.id) =
                                     [l EXCEPT !.campaign_id = pr.campaign]
                         ELSE l \in leadsTable'
             /\ (pr.pc = "reassign" /\ procs'[p].pc = "activate") =>
                   /\ pr.leads = <<>>
                   /\ pr.orgLeads = <<>>
                   /\ UnassignedPending(leadsTable, pr.organization_id) = {}
                   /\ SameIds(leadsTable, leadsTable')
                   /\ Cardinality(Changed(leadsTable, leadsTable')) \in 0..5
                   /\ Len(pr.otherCampaignLeads) \in 1..5
                   /\ \A l \in leadsTable :
                         IF l.id \in Ids(pr.otherCampaignLeads)
                         THEN /\ l.organization_id = pr.organization_id
                              /\ l.campaign_id # Null
                              /\ LeadById(leadsTable', l.id) =
                                     [l EXCEPT !.campaign_id = pr.campaign,
                                               !.call_status = "pending"]
                         ELSE l \in leadsTable'
             /\ (Starting(pr) /\ pr.pc \notin {"reset", "assign", "reassign"}) =>
                   leadsTable' = leadsTable]_vars

\* five of the six leads of another campaign have been reassigned
C18_Witness ==
    \E p \in Invocations :
        /\ procs[p].pc = "activate"
        /\ procs[p].leads = <<>> /\ procs[p].orgLeads = <<>>
        /\ Len(procs[p].otherCampaignLeads) = 5
        /\ Cardinality(PendingLeads(leadsTable, "camp1")) = 5
        /\ Cardinality({l \in leadsTable : l.campaign_id = "camp2"}) = 1

\* ten of eleven pending leads without a campaign have been attached
C18_WitnessAttached ==
    \E p \in Invocations :
        /\ procs[p].pc = "activate"
        /\ Len(procs[p].orgLeads) = 10
        /\ Cardinality(PendingLeads(leadsTable, "camp1")) = 10
        /\ Cardinality(UnassignedPending(leadsTable, "orgA")) = 1

\* C19: startCampaign raises 'Campaign not found' for a campaign that is not
\* of the organization of the service, and 'No leads found for campaign.
\* Please upload leads first.' when the campaign has no pending and no
\* resetable lead and the organization has no lead to attach or reassign;
\* an invocation that raised either has not set the campaign to 'active'
\* and has started no run.
NoLeadToObtain(table, org, campaignId) ==
    \A l \in table :
        /\ ~ (l.campaign_id = campaignId /\ l.call_status \in {"pending", "failed", "no_answer", "busy"})
        /\ ~ (l.organization_id = org /\ l.campaign_id = Null /\ l.call_status = "pending")
        /\ ~ (l.organization_id = org /\ l.campaign_id # Null
                 /\ l.call_status \in {"pending", "failed", "no_answer", "busy"})

OfOrganization(campaignId, org) ==
    campaignId \in DOMAIN campaigns /\ campaigns[campaignId].organization_id = org

C19_StartErrors ==
    [][\A p \in Invocations :
          LET pr == procs[p]
          IN /\ ( /\ pr.pc = "getCampaign" /\ procs'[p] # pr
                  /\ ~ OfOrganization(pr.campaign, pr.organization_id) ) =>
                     procs'[p].result = "Campaign not found"
             /\ ( /\ pr.pc \in {"getOrg", "getOther"} /\ procs'[p] # pr
                  /\ NoLeadToObtain(leadsTable, pr.organization_id, pr.campaign) ) =>
                     \/ pr.pc = "getOrg" /\ procs'[p].pc = "getOther"
                     \/ procs'[p].result = "No leads found for campaign. Please upload leads first."
             /\ (Starting(pr) /\ NoLeadToObtain(leadsTable, pr.organization_id, pr.campaign)) =>
                     procs'[p].pc \in {"getCampaign", "getPending", "getAll", "getOrg",
                                       "getOther", "raised"}
             /\ procs'[p].result \in {"Campaign not found",
                                       "No leads found for campaign. Please upload leads first."} =>
                     /\ procs'[p].pc = "raised"
                     /\ campaigns'[pr.campaign].status # "active"
                     /\ procs'[p].runLeads = <<>> /\ procs'[p].attempts = <<>>
                     /\ vapiCalls' = {} /\ calls' = {}]_vars

\* no lead could be obtained for a campaign whose leads are completed or on
\* the do-not-call list: the error was raised, the campaign is not active
C19_Witness ==
    \E p \in Invocations :
        /\ procs[p].result = "No leads found for campaign. Please upload leads first."
        /\ procs[p].campaign = "camp1"
        /\ campaigns["camp1"].status = "draft"
        /\ \E l \in leadsTable : l.campaign_id = "camp1" /\ l.call_status = "do_not_call"

\* the campaign of another organization was not found
C19_WitnessNotFound ==
    \E p \in Invocations :
        /\ procs[p].result = "Campaign not found"
        /\ ~ OfOrganization(procs[p].campaign, procs[p].organization_id)
        /\ \E l \in leadsTable : l.campaign_id = procs[p].campaign /\ l.call_status = "pending"

(***************************************************************************)
(* Properties of the campaign routes                                       *)
(***************************************************************************)
Requests == 1..Len(requests)

\* C20: a start request for a campaign that is 'active' is answered 400
\* 'Campaign is already active' and changes nothing, and no start request
\* sets a campaign to 'active' that is 'active' already, also when several
\* requests are handled together.
C20_ActiveNeverStartedAgain ==
    [][\A r \in Requests :
          LET req == requests[r]
          IN /\ ( /\ req.pc = "select" /\ requests'[r] # req
                  /\ requests'[r].response.code \notin {404}
                  /\ campaigns[req.id].status = "active" ) =>
                     /\ requests'[r].response =
                            [code |-> 400, message |-> "Campaign is already active"]
                     /\ campaigns' = campaigns
             /\ requests'[r].response.code = 400 => requests'[r].pc = "done"
             /\ (req.pc = "update" /\ requests'[r].response.code = 200) =>
                     campaigns[req.id].status # "active"]_vars

(***************************************************************************)
(* Properties over several operations                                      *)
(***************************************************************************)
\* C24: formatPhoneNumber is idempotent: the number makeCall formats from
\* the stored phone of a lead is that stored phone, whatever the phone of
\* the CSV row was, and the number it dials is the stored phone too (a
\* stored phone is never empty: the upload demands a digit).
C24_FormatIdempotent ==
    fmtPc = "dialled" =>
        \A lead \in leadsTable :
            /\ fmtOut = lead.phone
            /\ lead.phone # <<>> => vapiNumber = lead.phone

\* a Malta mobile number of 8 digits was stored as +356 and its 8 digits and
\* is dialled as stored
C24_Witness ==
    /\ fmtPc = "dialled"
    /\ Len(DigitsOnly(fmtIn)) = 8
    /\ fmtIn[1] = "7"
    /\ vapiNumber = <<"+", "3", "5", "6">> \o DigitsOnly(fmtIn)
    /\ \E lead \in leadsTable : lead.phone = vapiNumber /\ fmtOut = lead.phone

\* C25: makeCall marks a lead 'failed' only when the calling API accepted no
\* call for the lead in that attempt: when an attempt ends, a call the API
\* accepted in it has a call record in storage and its lead is 'calling'.
C25_FailedOnlyWithoutCall ==
    [][\A p \in Invocations :
          LET lead == procs[p].runLeads[procs[p].idx]
              accepted == \E v \in vapiCalls : v.id = VapiCallId(p, procs[p].idx)
          IN /\ (procs[p].pc = "markFailed" /\ procs'[p].pc # "markFailed") => ~ accepted
             /\ (InMakeCall(procs[p]) /\ ~ InMakeCall(procs'[p]) /\ accepted) =>
                   /\ \E c \in calls' : c.vapi_call_id = VapiCallId(p, procs[p].idx)
                   /\ LeadStatus(leadsTable', lead.id) = {"calling"}]_vars

\* C26: no operation puts a lead that is 'completed' or 'do_not_call' back
\* to 'pending'.
C26_FinalStatusKept ==
    [][\A l \in leadsTable :
          l.call_status \in {"completed", "do_not_call"} =>
              \A m \in leadsTable' : m.id = l.id => m.call_status # "pending"]_vars

\* C27: the service of an organization places and records calls only for
\* campaigns of its own organization: the campaign of every call record has
\* the record's organization, and an invocation for which the API accepted a
\* call was made for a campaign of the service's organization.
C27_OwnCampaignsOnly ==
    /\ \A c \in calls : OfOrganization(c.campaign_id, c.organization_id)
    /\ \A p \in Invocations :
          (\E v \in vapiCalls : v.id[1] = p) =>
              OfOrganization(procs[p].campaign, procs[p].organization_id)

\* C21: a campaign that has active calls, calls initiated for it that have
\* not ended, is not deleted: a DELETE request for it is answered 400 and
\* the campaign stays in storage.
HasActiveCalls(id) ==
    \E c \in calls : c.campaign_id = id /\ c.status \in {"initiated", "active"}

C21_NoDeleteWithActiveCalls ==
    [][/\ \A id \in DOMAIN campaigns : HasActiveCalls(id) => id \in DOMAIN campaigns'
       /\ \A r \in Requests :
             ( /\ requests[r].kind = "delete" /\ requests[r].pc = "activeCalls"
               /\ requests'[r] # requests[r] /\ HasActiveCalls(requests[r].id) ) =>
                   requests'[r].response.code = 400]_vars

\* C28: a request confines its effect and its response to the caller's
\* organization: it changes or deletes no campaign of another organization
\* and returns no campaign, metric or call of a campaign of another one.
C28_ConfinedToOrganization ==
    [][\A r \in Requests :
          requests'[r] # requests[r] =>
              /\ \A id \in DOMAIN campaigns :
                    campaigns[id].organization_id # requests[r].organizationId =>
                        id \in DOMAIN campaigns' /\ campaigns'[id] = campaigns[id]
              /\ \A id \in requests'[r].response.campaigns :
                    CampaignOrg[id] = requests[r].organizationId
              /\ \A c \in requests'[r].response.calls :
                    CampaignOrg[c.campaign_id] = requests[r].organizationId]_vars

\* C22: a setup request that has been answered leaves the organization it
\* created in storage only together with its client_admin user: after a
\* failed admin insert the organization is deleted and the answer is 500
\* 'Failed to create admin user', after 201 both rows exist.
HasAdmin(organizationId) ==
    \E u \in users : u.organization_id = organizationId /\ u.role = "client_admin"

CreatedBy(r) == {o \in organizations : o.id = r}

RemindersOf(followupId) ==
    {n \in notifications : n.type = "follow_up_reminder" /\ n.followup_id = followupId}

C23_AtMostOneReminder ==
    \A f \in 1..Len(scheduledFollowups) : Cardinality(RemindersOf(f)) <= 1
=============================================================================
